---- MODULE Spec2Model ----
(***************************************************************************)
(* A model of the job Supervisor of cybergis-compute-core: the per-cluster *)
(* admission queues, the scheduler tick (setInterval callback), the        *)
(* maintainer worker loop, the SSH connection pool, cancellation, and the  *)
(* job routes that create, submit and cancel jobs.                         *)
(*                                                                         *)
(* Node runs one event loop: code between two awaits is atomic.  Every     *)
(* action below is one resumption of a suspended callback: the completion  *)
(* of the awaited operation followed by all synchronous code up to the     *)
(* next await.  A Redis or database command takes effect at the step that  *)
(* delivers its reply.                                                     *)
(***************************************************************************)
EXTENDS Integers, Sequences, FiniteSets, TLC

(***************************************************************************)
(* Configuration (configs/config, hpcConfigMap)                            *)
(***************************************************************************)
\* the clusters, in the iteration order of for..in over hpcConfigMap
HPCs == <<"hA">>
HpcNames == {HPCs[i] : i \in 1..Len(HPCs)}
\* hpcConfig.job_pool_capacity, as the constructor copies it into
\* jobPoolCapacities; b is the profile of the run
job_pool_capacity(b) == [c \in HpcNames |-> b.capacity]

\* the job ids Helper.generateId() hands out, in that order
GeneratedIds == <<"j1", "j2", "j3">>
JobIds == {GeneratedIds[i] : i \in 1..Len(GeneratedIds)}
NoJob == "none"
NoCred == "nocred"

(***************************************************************************)
(* Bounds.  A run draws one of two profiles of what its environment does:  *)
(*  - Concurrent: two tick callbacks suspended at once and two submit      *)
(*    requests past the guard, with a remote that always answers;          *)
(*  - Faulty: one callback and one submit, with cancel requests and a      *)
(*    remote that fails and stalls, as far as the Max* bounds allow;       *)
(*  - Closed: as Concurrent, on a cluster whose capacity is 0.             *)
(***************************************************************************)
\* cancelJob calls
MaxCancels == 2
\* connection attempts whose backoff is exhausted
MaxConnFail == 1
\* maintain() calls of one job that leave it running
MaxPolls == 1
\* onInit() calls that throw
MaxInitErr == 1
\* maintainer constructors that throw
MaxCtorErr == 1
\* init() attempts a maintainer makes before it fails the job
\* (BaseMaintainer.initRetry)
initRetry == 2
\* cachedUploadGit calls
MaxStages == 3
\* advances of the clock, half a second each
MaxClock == 4
\* purges of the scratch space
MaxWipes == 1

Concurrent == [capacity |-> 1, jobs |-> 2, ticks |-> 2, submits |-> 2, cancels |-> 0,
               connFail |-> 0, polls |-> 0, initErr |-> 0, ctorErr |-> 0]
Faulty == [capacity |-> 1, jobs |-> 2, ticks |-> 1, submits |-> 1, cancels |-> MaxCancels,
           connFail |-> MaxConnFail, polls |-> MaxPolls, initErr |-> MaxInitErr,
           ctorErr |-> MaxCtorErr]
\* a cluster that is configured with job_pool_capacity 0
Closed == [Concurrent EXCEPT !.capacity = 0]
Profiles == {Concurrent, Faulty, Closed}
\* three jobs queued before the first tick on a cluster of capacity 2, a
\* remote that always answers, and a supervisor that may be destroyed
Burst == [Concurrent EXCEPT !.capacity = 2, !.jobs = 3, !.submits = 0]

VARIABLES
  budget,            \* the profile of this run
  jobPoolCapacities, \* Supervisor.jobPoolCapacities
  destroyed,         \* destroy() was called: the interval is cleared
  pushLog,           \* history: cluster -> the ids RPUSH appended, in order
  is_testing,        \* config.is_testing
  is_community_account, \* hpcConfigMap[c].is_community_account: a shared
                     \* community account, or the user's own credentials
  db,                \* the jobs table: job id -> row
  secretStore,       \* CredentialManager: the credential ids stored in Redis
  events,            \* the events table: job id -> sequence of event types
  queues,            \* Supervisor.queues: cluster -> Redis list of job ids
  sub,               \* suspended POST /job/:jobId/submit handlers, per job
  nSubmits,          \* submit requests that passed the guard so far
  jobPoolCounters,   \* Supervisor.jobPoolCounters
  runningJobs,       \* Supervisor.runningJobs: cluster -> sequence of Job references
  cancelJobs,        \* Supervisor.cancelJobs:  cluster -> sequence of Job references
  connectionPool,    \* connectionPool: cluster name or job id -> entry
  inst,              \* the Job objects pop() hydrated (a reference is an index)
  thr,               \* the tick callbacks: where each one is suspended
  nConnFail,         \* exhausted connection attempts so far
  nInitErr,          \* onInit() calls that threw so far
  nCtorErr,          \* maintainer constructors that threw so far
  nCancels,          \* cancelJob calls so far
  lastCancel,        \* the last cancelJob call: its argument, what it returned
                     \* (0 for null) and whether the id was queued then
  now,               \* the clock, in milliseconds (Date.getTime())
  lastCommit,        \* GitUtil.getLastCommitTime(git): seconds
  remoteZip,         \* the zip at cachePath on the cluster: the commit it
                     \* holds, NoZip when remoteFsExists(cachePath) is false
  cacheRow,          \* the caches row for (hpc, cachePath)
  stages,            \* history: one record per completed cachedUploadGit call
  nWipes,            \* purges of the cluster's scratch space so far
  hpcRules,          \* hpcConfigMap[hpc].slurm_input_rules: field -> rule
  hpcCap,            \* hpcConfigMap[hpc].slurm_global_cap: field -> value
  slurmReq,          \* job.slurm of the job handed to validateSlurmConfig
  verdict,           \* what validateSlurmConfig did with it
  mnt,               \* a CommunityContributionMaintainer: its flags, the await
                     \* it is suspended at, the events it emitted and the
                     \* remote and database operations that completed
  resultContent,     \* the value under job_result_folder_content<jobId>
  emitCall,          \* an Emitter call: the await it is suspended at, how the
                     \* last call settled, and the logs table
  upl,               \* the folder upload of each caller: the uploader object
                     \* and the await it is suspended at
  folderRows,        \* the folders table
  nCalls,            \* uploader calls started so far
  nFaults,           \* remote or database writes that failed so far
  timeCall           \* two Slurm time strings, and what timeToSeconds and
                     \* compareSlurmConfig answered for them

\* the state of the Supervisor and the job routes
supVars == <<budget, jobPoolCapacities, destroyed, pushLog, is_testing, is_community_account, db, secretStore, events, queues, sub, nSubmits,
          jobPoolCounters, runningJobs, cancelJobs, connectionPool, inst, thr,
          nConnFail, nInitErr, nCtorErr, nCancels, lastCancel>>
\* the state of the cached folder upload
stagingVars == <<now, lastCommit, remoteZip, cacheRow, stages, nWipes>>
\* the state of the Slurm config validator
slurmVars == <<hpcRules, hpcCap, slurmReq, verdict>>
\* the state of one maintainer and of the result-folder content store
maintVars == <<mnt, resultContent>>
\* the state of single calls followed await by await
callVars == <<emitCall, upl, folderRows, nCalls, nFaults, timeCall>>
vars == <<supVars, stagingVars, slurmVars, maintVars, callVars>>

(***************************************************************************)
(* Helpers                                                                 *)
(***************************************************************************)
Range(s) == {s[i] : i \in 1..Len(s)}

RECURSIVE Count(_, _)
Count(s, x) == IF s = <<>> THEN 0
               ELSE (IF Head(s) = x THEN 1 ELSE 0) + Count(Tail(s), x)

\* Array.indexOf(x, 0): the first position of x, 0 when absent (JS: -1)
IndexOf(s, x) == IF x \in Range(s)
                 THEN CHOOSE i \in 1..Len(s) : s[i] = x /\ \A k \in 1..(i-1) : s[k] # x
                 ELSE 0

\* index = a.indexOf(x, 0); if (index > -1) a.splice(index, 1)
RemoveFirst(s, x) == LET i == IndexOf(s, x) IN
                     IF i = 0 THEN s
                     ELSE SubSeq(s, 1, i-1) \o SubSeq(s, i+1, Len(s))

AbsentEntry == [present |-> FALSE, counter |-> 0, connected |-> FALSE]
IdleThread == [pc |-> "idle", h |-> 0, ref |-> 0, jid |-> NoJob]
NoRow == [exists |-> FALSE, hpc |-> "hA", credentialId |-> NoCred,
          queuedAt |-> FALSE, initializedAt |-> FALSE, finishedAt |-> 0,
          isFailed |-> FALSE]

\* the key under which a job's shell lives in the pool
\* (job.maintainerInstance.connector.connectorConfig.is_community_account)
PoolKey(j) == IF is_community_account[j.hpc] THEN j.hpc ELSE j.id

\* the supervisor's in-memory state, as one record the synchronous code maps
Sup == [inst |-> inst, run |-> runningJobs, can |-> cancelJobs,
        cnt |-> jobPoolCounters, pool |-> connectionPool, thr |-> thr]

SetSup(S) == /\ inst' = S.inst
             /\ runningJobs' = S.run
             /\ cancelJobs' = S.can
             /\ jobPoolCounters' = S.cnt
             /\ connectionPool' = S.pool
             /\ thr' = S.thr

(***************************************************************************)
(* Emitter.registerEvents                                                  *)
(***************************************************************************)
TerminalEvents == {"JOB_ENDED", "JOB_FAILED"}

\* the event types of the event stream
EventTypes == {"JOB_QUEUED", "JOB_REGISTERED", "JOB_INIT", "JOB_INIT_ERROR",
               "JOB_RETRY", "JOB_FAILED", "JOB_ENDED", "SLURM_UPLOAD_EXECUTABLE",
               "SLURM_UPLOAD_DATA", "SLURM_CREATE_RESULT"}

\* a registerEvents that flags every finished job as failed
EmitRow_AlwaysFailed(row, type) ==
  IF type = "JOB_INIT" THEN [row EXCEPT !.initializedAt = TRUE]
  ELSE IF type \in TerminalEvents
       THEN [row EXCEPT !.finishedAt = @ + 1, !.isFailed = TRUE]
       ELSE row

\* the job row after registerEvents(job, type, ...)
EmitRow(row, type) ==
  IF type = "JOB_INIT" THEN [row EXCEPT !.initializedAt = TRUE]
  ELSE IF type \in TerminalEvents
       THEN [row EXCEPT !.finishedAt = @ + 1, !.isFailed = (type = "JOB_FAILED")]
       ELSE row

RECURSIVE EmitRows(_, _)
EmitRows(row, types) == IF types = <<>> THEN row
                        ELSE EmitRows(EmitRow(row, Head(types)), Tail(types))

\* registerEvents for each type of `types`, in order, for job j
RegisterEvents(j, types) ==
  /\ db' = [db EXCEPT ![j] = EmitRows(@, types)]
  /\ events' = [events EXCEPT ![j] = @ \o types]

(***************************************************************************)
(* BaseMaintainer / CommunityContributionMaintainer                        *)
(***************************************************************************)
\* BaseMaintainer.emitEvent: buffers the event and raises the lifecycle flags
MaintainerEmit(m, type) ==
  [m EXCEPT !.buf = Append(@, type),
            !.isInit = @ \/ (type = "JOB_INIT"),
            !.isEnd = @ \/ (type \in TerminalEvents)]

RECURSIVE MaintainerEmitAll(_, _)
MaintainerEmitAll(m, types) ==
  IF types = <<>> THEN m
  ELSE MaintainerEmitAll(MaintainerEmit(m, Head(types)), Tail(types))

\* onInit: "ok" runs to the end; "err" throws before anything is staged
OnInit(m, outcome) ==
  IF outcome = "ok"
  THEN MaintainerEmitAll([m EXCEPT !.jobOnHpc = TRUE],
         <<"SLURM_UPLOAD_EXECUTABLE", "SLURM_CREATE_RESULT", "JOB_INIT">>)
  ELSE MaintainerEmit(m, "JOB_RETRY")

\* BaseMaintainer.init: gives up once initRetry attempts were made
MaintainerInit(m, outcome) ==
  IF m.initCounter >= initRetry
  THEN MaintainerEmit(m, "JOB_FAILED")
  ELSE [OnInit(m, outcome) EXCEPT !.initCounter = @ + 1]

\* onMaintain, by what connector.getStatus() answers:
\*   "failed" (ERROR, F, NF), "completed" (C, CD, UNKNOWN), "running" (any
\*   other status), "err" (getStatus throws)
OnMaintain(m, outcome) ==
  CASE outcome = "failed"    -> MaintainerEmit(m, "JOB_FAILED")
    [] outcome = "completed" -> MaintainerEmit(m, "JOB_ENDED")
    [] outcome = "running"   -> [m EXCEPT !.polls = @ + 1]
    [] OTHER                 -> MaintainerEmit([m EXCEPT !.polls = @ + 1], "JOB_RETRY")

\* how init() and maintain() may come out: over a shell that is not
\* connected every remote command throws
InitOutcomes(connected) ==
  IF ~connected THEN {"err"}
  ELSE {"ok"} \cup (IF nInitErr < budget.initErr THEN {"err"} ELSE {})
MaintainOutcomes(m, connected) ==
  IF ~connected THEN {"err"}
  ELSE {"failed", "completed"} \cup
       (IF m.polls < budget.polls THEN {"running", "err"} ELSE {})

(***************************************************************************)
(* Supervisor: the synchronous stretches of the tick callback              *)
(***************************************************************************)
\* a while-guard that also admits when the counter equals the capacity
WhilePos_AtCapacity(cnt, h) ==
  LET ok == {i \in h..Len(HPCs) : cnt[HPCs[i]] <= jobPoolCapacities[HPCs[i]]} IN
  IF ok = {} THEN 0 ELSE CHOOSE i \in ok : \A k \in ok : i <= k

\* the first cluster at or after position h whose while-guard
\* jobPoolCounters[hpcName] < jobPoolCapacities[hpcName] holds; 0 when none
WhilePos(cnt, h) ==
  LET ok == {i \in h..Len(HPCs) : cnt[HPCs[i]] < jobPoolCapacities[HPCs[i]]} IN
  IF ok = {} THEN 0 ELSE CHOOSE i \in ok : \A k \in ok : i <= k

\* (re-)enter the while loop of cluster h: the callback either suspends at
\* `await this.queues[hpcName].isEmpty()` or falls off the end of the for loop
WhileEnter(S, t, h) ==
  LET i == WhilePos(S.cnt, h) IN
  [S EXCEPT !.thr[t] = IF i = 0 THEN IdleThread
                       ELSE [pc |-> "isEmpty", h |-> i, ref |-> 0, jid |-> NoJob]]

\* top of the worker loop: fetch the shell from the pool, then either await
\* the connection or call init()/maintain().  A private job whose pool entry
\* is gone makes `connectionPool[job.id].ssh` throw: the callback dies.
LoopTop(S, t, r) ==
  LET k == PoolKey(S.inst[r]) IN
  IF ~S.pool[k].present THEN [S EXCEPT !.thr[t] = IdleThread, !.inst[r].crashed = TRUE]
  ELSE IF ~S.pool[k].connected THEN [S EXCEPT !.thr[t].pc = "w_conn"]
  ELSE [S EXCEPT !.thr[t].pc = "w_run"]

\* an ending branch that forgets `connectionPool[job.hpc].counter--`
Cleanup_KeepCounter(S, r) ==
  LET j == S.inst[r]
      k == PoolKey(j)
      pool1 == IF is_community_account[j.hpc]
               THEN S.pool
               ELSE [S.pool EXCEPT ![k] = AbsentEntry]
  IN [S EXCEPT !.pool = pool1,
               !.cnt[j.hpc] = @ - 1,
               !.run[j.hpc] = RemoveFirst(@, r),
               !.can[j.hpc] = RemoveFirst(@, r),
               !.inst[r].done = TRUE]

\* the ending branch of the worker loop (`if (job.maintainerInstance.isEnd)`)
Cleanup(S, r) ==
  LET j == S.inst[r]
      k == PoolKey(j)
      pool1 == IF is_community_account[j.hpc]
               THEN [S.pool EXCEPT ![k].counter = @ - 1,
                                   ![k].connected = IF S.pool[k].counter - 1 = 0
                                                    THEN FALSE ELSE @]
               ELSE [S.pool EXCEPT ![k] = AbsentEntry]
  IN [S EXCEPT !.pool = pool1,
               !.cnt[j.hpc] = @ - 1,
               !.run[j.hpc] = RemoveFirst(@, r),
               !.can[j.hpc] = RemoveFirst(@, r),
               !.inst[r].done = TRUE]

EndCheck(S, t, r) ==
  IF S.inst[r].isEnd THEN WhileEnter(Cleanup(S, r), t, S.thr[t].h)
  ELSE LoopTop(S, t, r)

\* `check if job should be canceled`: suspend in onCancel() or go on to the
\* ending check
CancelCheck(S, t, r) ==
  LET j == S.inst[r]
      shouldCancel == r \in Range(S.can[j.hpc]) IN
  IF shouldCancel /\ j.jobOnHpc
  THEN [S EXCEPT !.thr[t].pc = "w_cancel"]
  ELSE EndCheck([S EXCEPT !.inst[r].missed = @ \/ j.cancelAsked], t, r)

\* connectors/ConnectionPool: one entry per community-account cluster, with
\* counter 0 and a shell that is not connected yet; no private entries
InitialPool(community) ==
  [k \in HpcNames \cup JobIds |->
     IF k \in HpcNames /\ community[k]
     THEN [present |-> TRUE, counter |-> 0, connected |-> FALSE]
     ELSE AbsentEntry]

(***************************************************************************)
(* JobUtil: the Slurm config validator.  A value is a record: NoValue for  *)
(* undefined, a number (IntV), a storage string such as "10G" (MemV: the   *)
(* digits and the unit letter), or a time string such as "1-02:03:04"      *)
(* (TimeV: the days before "-", -1 when there is no "-", and the fields    *)
(* separated by ":").                                                      *)
(***************************************************************************)
NoValue == [set |-> FALSE]
IntV(n) == [set |-> TRUE, str |-> FALSE, n |-> n]
MemV(n, unit) == [set |-> TRUE, str |-> TRUE, n |-> n, unit |-> unit]
TimeV(day, f) == [set |-> TRUE, str |-> TRUE, day |-> day, f |-> f]

\* utils/types: the fields with a storage unit, with a time unit, plain integers
slurm_integer_storage_unit_config == {"memory_per_cpu", "memory_per_gpu", "memory"}
slurm_integer_time_unit_config == {"time"}
slurm_integer_configs == {"num_of_node", "num_of_task", "cpu_per_task", "gpus",
                          "gpus_per_node", "gpus_per_socket", "gpus_per_task"}
SlurmFields == slurm_integer_storage_unit_config \cup slurm_integer_time_unit_config
                 \cup slurm_integer_configs

defaultSlurmCeiling ==
  [f \in SlurmFields |->
     CASE f \in {"num_of_node", "num_of_task", "cpu_per_task"} -> IntV(50)
       [] f \in {"memory_per_cpu", "memory_per_gpu"} -> MemV(10, "G")
       [] f = "memory" -> MemV(50, "G")
       [] f = "time" -> TimeV(-1, <<10, 0, 0>>)
       [] OTHER -> IntV(20)]

\* `!val`: undefined, 0 and "" are falsy
Falsy(v) == ~v.set \/ (~v.str /\ v.n = 0)

storageUnitToKB(v) ==
  CASE v.unit = "P" -> v.n * 1024 * 1024 * 1024 * 1024
    [] v.unit = "T" -> v.n * 1024 * 1024 * 1024
    [] v.unit = "G" -> v.n * 1024 * 1024
    [] v.unit = "M" -> v.n * 1024
    [] OTHER -> v.n

unitTimeToSeconds(time, unit) ==
  CASE unit = "Minutes" -> time * 60
    [] unit = "Hours" -> time * 60 * 60
    [] unit = "Days" -> time * 60 * 60 * 24
    [] OTHER -> 0

secondsToTime(seconds) ==
  LET days == seconds \div (60 * 60 * 24)
      hours == (seconds \div (60 * 60)) - days * 24
      minutes == (seconds \div 60) - days * 60 * 24 - hours * 60 IN
  IF days = 0
  THEN IF hours = 0 THEN TimeV(-1, <<minutes, 0>>)
       ELSE TimeV(-1, <<hours, minutes, 0>>)
  ELSE TimeV(days, <<hours, minutes, 0>>)

\* a value larger than any time the model forms (the code returns Infinity)
Infinity == 100000000

\* timeToSeconds, branch by branch (j[0] is the part before "-", or the whole
\* first field when there is no "-")
timeToSeconds(v) ==
  LET j0 == IF v.day >= 0 THEN v.day ELSE v.f[1] IN
  CASE Len(v.f) = 1 ->
         IF v.day < 0 THEN v.f[1] * 60
         ELSE j0 * 60 * 60 * 24 + j0 * 60 * 60
    [] Len(v.f) = 2 ->
         IF v.day >= 0 THEN v.day * 60 * 60 * 24 + v.f[1] * 60 * 60 + v.f[2] * 60
         ELSE v.f[1] * 60 + v.f[1]
    [] Len(v.f) = 3 ->
         IF v.day >= 0
         THEN v.day * 60 * 60 * 24 + v.f[1] * 60 * 60 + v.f[2] * 60 + v.f[3]
         ELSE v.f[1] * 60 * 60 + v.f[2] * 60 + v.f[3]
    [] OTHER -> Infinity

\* compareSlurmConfig(i, a, b): a and b are set
compareSlurmConfig(i, a, b) ==
  IF i \in slurm_integer_storage_unit_config THEN storageUnitToKB(a) < storageUnitToKB(b)
  ELSE IF i \in slurm_integer_time_unit_config THEN timeToSeconds(a) < timeToSeconds(b)
  ELSE a.n < b.n

\* first loop: the ceiling a rule with a max gives its field
RuleCeiling(f, rule) ==
  IF ~rule.set THEN NoValue
  ELSE IF f \in slurm_integer_storage_unit_config THEN MemV(rule.max, rule.unit)
  ELSE IF f \in slurm_integer_time_unit_config
       THEN secondsToTime(unitTimeToSeconds(rule.max, rule.unit))
  ELSE IF f \in slurm_integer_configs THEN IntV(rule.max)
  ELSE NoValue

\* second loop: compareSlurmConfig(field, val, slurmCeiling[field]) on a
\* storage or time field without a ceiling dereferences undefined
CapThrows(f, ceiling, cap) ==
  /\ ~Falsy(cap) /\ cap.str
  /\ f \in slurm_integer_storage_unit_config \cup slurm_integer_time_unit_config
  /\ ~ceiling.set

CapCeiling(f, ceiling, cap) ==
  IF ~cap.set THEN ceiling
  ELSE IF Falsy(cap) THEN cap
  ELSE IF cap.str /\ compareSlurmConfig(f, cap, ceiling) THEN cap
  ELSE ceiling

\* third loop: the default fills the fields that have no ceiling yet
DefaultCeiling(f, ceiling) ==
  IF Falsy(ceiling) THEN defaultSlurmCeiling[f] ELSE ceiling

\* last loop: does field f of the request make validateSlurmConfig throw
RequestThrows(f, ceiling, val) ==
  /\ ~Falsy(val)
  /\ val.str
  /\ compareSlurmConfig(f, ceiling, val)

\* validateSlurmConfig(job, {}) on a cluster with the given rules and cap
validateSlurmConfig(rules, cap, req) ==
  LET c1 == [f \in SlurmFields |-> RuleCeiling(f, rules[f])] IN
  IF \E f \in SlurmFields : CapThrows(f, c1[f], cap[f])
  THEN [status |-> "TypeError", ceiling |-> c1]
  ELSE LET c2 == [f \in SlurmFields |-> CapCeiling(f, c1[f], cap[f])]
           c3 == [f \in SlurmFields |-> DefaultCeiling(f, c2[f])] IN
       [status |-> IF \E f \in SlurmFields : RequestThrows(f, c3[f], req[f])
                   THEN "Error" ELSE "ok",
        ceiling |-> c3]

NotValidated == [status |-> "none", ceiling |-> [f \in SlurmFields |-> NoValue]]

(***************************************************************************)
(* CommunityContributionMaintainer: onInit and onMaintain, await by await  *)
(***************************************************************************)
\* GET job_result_folder_content<jobId> answers null
NoListing == [stored |-> FALSE, contents |-> <<>>]

\* a maintainer as constructed for a job; gitExecutable: localExecutableFolder
\* is a git folder; localDataFolder: the job has a local data folder
NewMaintainer(gitExecutable, localDataFolder) ==
  [pc |-> "idle", gitExecutable |-> gitExecutable, localDataFolder |-> localDataFolder,
   isInit |-> FALSE, isEnd |-> FALSE, jobOnHpc |-> FALSE, initCounter |-> 0, polls |-> 0,
   buf |-> <<>>, run |-> <<>>, calls |-> <<>>, status |-> "none", contents |-> <<>>,
   defaultPath |-> "none", submits |-> 0]

\* no maintainer under way and nothing published
NothingMaintained ==
  /\ mnt = NewMaintainer(TRUE, FALSE)
  /\ resultContent = NoListing

\* the awaits of onInit and of onMaintain
InitOps == {"findGit", "getExecutableManifest", "cachedUploadGit", "findExecutableFolder",
            "uploadData", "findDataFolder", "uploadResult", "findResultFolder",
            "updateFolders", "execExecutableManifestWithinImage", "submit", "jobLog"}
MaintainOps == {"getSlurmStdout", "getSlurmStderr", "getUsage", "updateUsage",
                "jobLogBackup", "getRemoteResultFolderContent", "put"}

\* a remote or database operation of the maintainer completed
Did(m, op) == [m EXCEPT !.run = Append(@, op), !.calls = Append(@, op)]

\* an onInit that raises jobOnHpc and emits JOB_INIT once the submission is
\* built, before connector.submit()
InitAfter_EarlyFlag(m, op) ==
  CASE op = "findGit" -> [m EXCEPT !.pc = "getExecutableManifest"]
    [] op = "getExecutableManifest" ->
         [MaintainerEmit(m, "SLURM_UPLOAD_EXECUTABLE") EXCEPT !.pc = "cachedUploadGit"]
    [] op = "cachedUploadGit" -> [m EXCEPT !.pc = "findExecutableFolder"]
    [] op = "findExecutableFolder" ->
         IF m.localDataFolder
         THEN [MaintainerEmit(m, "SLURM_UPLOAD_DATA") EXCEPT !.pc = "uploadData"]
         ELSE [MaintainerEmit(m, "SLURM_CREATE_RESULT") EXCEPT !.pc = "uploadResult"]
    [] op = "uploadData" -> [m EXCEPT !.pc = "findDataFolder"]
    [] op = "findDataFolder" ->
         [MaintainerEmit(m, "SLURM_CREATE_RESULT") EXCEPT !.pc = "uploadResult"]
    [] op = "uploadResult" -> [m EXCEPT !.pc = "findResultFolder"]
    [] op = "findResultFolder" -> [m EXCEPT !.pc = "updateFolders"]
    [] op = "updateFolders" -> [m EXCEPT !.pc = "execExecutableManifestWithinImage"]
    [] op = "execExecutableManifestWithinImage" ->
         [MaintainerEmit([m EXCEPT !.jobOnHpc = TRUE], "JOB_INIT") EXCEPT
            !.pc = "submit", !.submits = @ + 1]
    [] op = "submit" -> [m EXCEPT !.pc = "jobLog"]
    [] OTHER -> [m EXCEPT !.pc = "returned", !.initCounter = @ + 1]

\* onInit from the return of await `op` to the next await (or to its end,
\* after which BaseMaintainer.init counts the attempt)
InitAfter(m, op) ==
  CASE op = "findGit" -> [m EXCEPT !.pc = "getExecutableManifest"]
    [] op = "getExecutableManifest" ->
         [MaintainerEmit(m, "SLURM_UPLOAD_EXECUTABLE") EXCEPT !.pc = "cachedUploadGit"]
    [] op = "cachedUploadGit" -> [m EXCEPT !.pc = "findExecutableFolder"]
    [] op = "findExecutableFolder" ->
         IF m.localDataFolder
         THEN [MaintainerEmit(m, "SLURM_UPLOAD_DATA") EXCEPT !.pc = "uploadData"]
         ELSE [MaintainerEmit(m, "SLURM_CREATE_RESULT") EXCEPT !.pc = "uploadResult"]
    [] op = "uploadData" -> [m EXCEPT !.pc = "findDataFolder"]
    [] op = "findDataFolder" ->
         [MaintainerEmit(m, "SLURM_CREATE_RESULT") EXCEPT !.pc = "uploadResult"]
    [] op = "uploadResult" -> [m EXCEPT !.pc = "findResultFolder"]
    [] op = "findResultFolder" -> [m EXCEPT !.pc = "updateFolders"]
    [] op = "updateFolders" -> [m EXCEPT !.pc = "execExecutableManifestWithinImage"]
    [] op = "execExecutableManifestWithinImage" ->
         [m EXCEPT !.pc = "submit", !.submits = @ + 1]
    [] op = "submit" ->
         [MaintainerEmit([m EXCEPT !.jobOnHpc = TRUE], "JOB_INIT") EXCEPT !.pc = "jobLog"]
    [] OTHER -> [m EXCEPT !.pc = "returned", !.initCounter = @ + 1]

\* the catch of onInit
InitCatch(m) ==
  [MaintainerEmit(m, "JOB_RETRY") EXCEPT !.pc = "returned", !.initCounter = @ + 1]

\* the statuses connector.getStatus() answers
Statuses == {"ERROR", "F", "NF", "C", "CD", "UNKNOWN", "R", "PD"}

\* an onMaintain that takes UNKNOWN for a job still running
StatusAfter_UnknownRuns(m, status) ==
  IF status \in {"ERROR", "F", "NF"}
  THEN [MaintainerEmit([m EXCEPT !.status = status], "JOB_FAILED") EXCEPT !.pc = "returned"]
  ELSE IF status \in {"C", "CD"}
  THEN [m EXCEPT !.status = status, !.pc = "getSlurmStdout"]
  ELSE [m EXCEPT !.status = status, !.pc = "returned"]

\* onMaintain from the answer of getStatus() to the next await or the return
StatusAfter(m, status) ==
  IF status \in {"ERROR", "F", "NF"}
  THEN [MaintainerEmit([m EXCEPT !.status = status], "JOB_FAILED") EXCEPT !.pc = "returned"]
  ELSE IF status \in {"C", "CD", "UNKNOWN"}
  THEN [m EXCEPT !.status = status, !.pc = "getSlurmStdout"]
  ELSE [m EXCEPT !.status = status, !.pc = "returned"]

\* the complete branch of onMaintain from the return of await `op` on
MaintainAfter(m, op) ==
  CASE op = "getSlurmStdout" -> [m EXCEPT !.pc = "getSlurmStderr"]
    [] op = "getSlurmStderr" -> [MaintainerEmit(m, "JOB_ENDED") EXCEPT !.pc = "getUsage"]
    [] op = "getUsage" -> [m EXCEPT !.pc = "updateUsage"]
    [] op = "updateUsage" -> [m EXCEPT !.pc = "jobLogBackup"]
    [] op = "jobLogBackup" -> [m EXCEPT !.pc = "getRemoteResultFolderContent"]
    [] op = "getRemoteResultFolderContent" -> [m EXCEPT !.pc = "put"]
    [] OTHER -> [m EXCEPT !.pc = "returned"]

\* the catch of onMaintain
MaintainCatch(m) == [MaintainerEmit(m, "JOB_RETRY") EXCEPT !.pc = "returned"]

\* contents.sort(...) with a comparator that puts d first
DefaultFirst(contents, d) ==
  IF d \in Range(contents)
  THEN <<d>> \o SelectSeq(contents, LAMBDA x : x # d)
  ELSE contents

\* the listing onMaintain hands to put: sorted for the manifest's
\* default_result_folder_downloadable_path ("none": the manifest has none),
\* and once more for the path with a leading "/" when it has none
Sorted(contents, d) ==
  IF d = "none" THEN contents
  ELSE IF d = "out" THEN DefaultFirst(DefaultFirst(contents, "out"), "/out")
  ELSE DefaultFirst(contents, d)

\* the cache of a cluster nothing was staged to yet: no zip, no caches row;
\* the repository has its first commit
NoZip == -1
NoCache == [present |-> FALSE, createdAt |-> 0, updatedAt |-> 0]
\* uploader calls started in one run
MaxCalls == 3
\* remote or database writes that fail in one run
MaxFaults == 1
\* the callers that may be suspended in an upload at once
Callers == {1, 2}
\* hpcConfig.root_path
root_path == "root_path"

\* no upload under way
NoUpload == [pc |-> "idle", kind |-> "none", id |-> 0, hpcPath |-> <<>>,
             isComplete |-> FALSE, isFailed |-> FALSE, cacheUpdateTime |-> -1,
             outcome |-> "none",
             unzipped |-> FALSE, served |-> NoZip, lost |-> "none"]

\* no time string handed to JobUtil yet
NoTimes == [pc |-> "none", a |-> <<>>, b |-> <<>>, seconds |-> -1, less |-> FALSE]
NoTimeGiven == timeCall = NoTimes
\* no Emitter call is in flight
NoEmit == [pc |-> "idle", type |-> "none", outcome |-> "none", n |-> 0, logs |-> 0]
NothingCalled ==
  /\ emitCall = NoEmit
  /\ upl = [k \in Callers |-> NoUpload]
  /\ folderRows = {}
  /\ nCalls = 0
  /\ nFaults = 0

NothingStaged ==
  /\ now = 1000
  /\ lastCommit = 1
  /\ remoteZip = NoZip
  /\ cacheRow = NoCache
  /\ stages = <<>>
  /\ nWipes = 0

\* a cluster without Slurm rules or caps, and no job validated yet
NothingValidated ==
  /\ hpcRules = [f \in SlurmFields |-> NoValue]
  /\ hpcCap = [f \in SlurmFields |-> NoValue]
  /\ slurmReq = [f \in SlurmFields |-> NoValue]
  /\ verdict = NotValidated

(***************************************************************************)
(* Initial state: the Supervisor and the connection pool as constructed    *)
(***************************************************************************)
Init ==
  /\ budget \in Profiles
  /\ jobPoolCapacities = job_pool_capacity(budget)
  /\ destroyed = FALSE
  /\ pushLog = [c \in HpcNames |-> <<>>]
  /\ is_testing \in BOOLEAN
  /\ is_community_account \in [HpcNames -> BOOLEAN]
  /\ db = [j \in JobIds |-> NoRow]
  /\ secretStore = {}
  /\ events = [j \in JobIds |-> <<>>]
  /\ queues = [c \in HpcNames |-> <<>>]
  /\ sub = [j \in JobIds |-> [event |-> 0, update |-> 0]]
  /\ nSubmits = 0
  /\ jobPoolCounters = [c \in HpcNames |-> 0]
  /\ runningJobs = [c \in HpcNames |-> <<>>]
  /\ cancelJobs = [c \in HpcNames |-> <<>>]
  /\ connectionPool = InitialPool(is_community_account)
  /\ inst = <<>>
  /\ thr = [t \in 1..budget.ticks |-> IdleThread]
  /\ nConnFail = 0
  /\ nInitErr = 0
  /\ nCtorErr = 0
  /\ nCancels = 0
  /\ lastCancel = [id |-> NoJob, ret |-> 0, queued |-> FALSE]
  /\ NothingStaged
  /\ NothingCalled
  /\ NoTimeGiven
  /\ NothingValidated
  /\ NothingMaintained

(***************************************************************************)
(* Job routes                                                              *)
(***************************************************************************)
\* a registerCredential that returns the id without writing the secret
registerCredential_Lost(store, credentialId) == store

\* SSHCredentialGuard.registerCredential: the store after the credential of
\* job j is written under its freshly generated id
registerCredential(store, credentialId) == store \cup {credentialId}

\* Helper.generateId(): an id no job has yet (the ids are handed out in a
\* fixed order)
FreshId ==
  LET free == {i \in 1..budget.jobs : ~db[GeneratedIds[i]].exists} IN
  IF free = {} THEN NoJob
  ELSE GeneratedIds[CHOOSE i \in free : \A k \in free : i <= k]

\* POST /job: a job row for cluster c; a private-account cluster gets a
\* credential registered, whose id the row keeps
CreateJob(j, c) ==
  /\ ~db[j].exists
  /\ j = FreshId
  /\ IF is_community_account[c]
     THEN /\ db' = [db EXCEPT ![j] = [NoRow EXCEPT !.exists = TRUE, !.hpc = c]]
          /\ UNCHANGED secretStore
     ELSE /\ secretStore' = registerCredential(secretStore, j)
          /\ db' = [db EXCEPT ![j] = [NoRow EXCEPT !.exists = TRUE, !.hpc = c,
                                                   !.credentialId = j]]
  /\ UNCHANGED <<callVars, maintVars, stagingVars, slurmVars, budget, jobPoolCapacities, destroyed, pushLog, is_testing, is_community_account, events, queues, sub, nSubmits, jobPoolCounters,
                 runningJobs, cancelJobs, connectionPool, inst, thr, nConnFail,
                 nInitErr, nCtorErr, nCancels, lastCancel>>

\* POST /job/:jobId/submit up to the reply of RPUSH: the row is read,
\* `if (job.queuedAt)` rejects, otherwise pushJobToQueue pushes the id
\* (JobQueue.push) and goes on to register JOB_QUEUED
SubmitPush(j) ==
  /\ db[j].exists
  /\ ~db[j].queuedAt
  /\ nSubmits < budget.submits
  /\ nSubmits' = nSubmits + 1
  /\ queues' = [queues EXCEPT ![db[j].hpc] = Append(@, j)]
  /\ pushLog' = [pushLog EXCEPT ![db[j].hpc] = Append(@, j)]
  /\ sub' = [sub EXCEPT ![j].event = @ + 1]
  /\ UNCHANGED <<callVars, maintVars, stagingVars, slurmVars, budget, jobPoolCapacities, destroyed, is_testing, is_community_account, db, secretStore, events,
                 jobPoolCounters, runningJobs, cancelJobs, connectionPool, inst,
                 thr, nConnFail, nInitErr, nCtorErr, nCancels, lastCancel>>

\* the JOB_QUEUED event is saved; pushJobToQueue returns and the route sets
\* job.queuedAt and issues the update
SubmitEvent(j) ==
  /\ sub[j].event > 0
  /\ events' = [events EXCEPT ![j] = Append(@, "JOB_QUEUED")]
  /\ sub' = [sub EXCEPT ![j].event = @ - 1, ![j].update = @ + 1]
  /\ UNCHANGED <<callVars, maintVars, stagingVars, slurmVars, budget, jobPoolCapacities, destroyed, pushLog, is_testing, is_community_account, db, secretStore, queues, nSubmits, jobPoolCounters,
                 runningJobs, cancelJobs, connectionPool, inst, thr, nConnFail,
                 nInitErr, nCtorErr, nCancels, lastCancel>>

\* the update of queuedAt reaches the jobs table
SubmitUpdate(j) ==
  /\ sub[j].update > 0
  /\ db' = [db EXCEPT ![j].queuedAt = TRUE]
  /\ sub' = [sub EXCEPT ![j].update = @ - 1]
  /\ UNCHANGED <<callVars, maintVars, stagingVars, slurmVars, budget, jobPoolCapacities, destroyed, pushLog, is_testing, is_community_account, secretStore, events, queues, nSubmits,
                 jobPoolCounters, runningJobs, cancelJobs, connectionPool, inst,
                 thr, nConnFail, nInitErr, nCtorErr, nCancels, lastCancel>>

(***************************************************************************)
(* Supervisor.createMaintainerMaster: the tick callback                    *)
(***************************************************************************)
\* setInterval fires: a new callback starts the for loop
TickFire(t) ==
  /\ ~destroyed
  /\ thr[t].pc = "idle"
  /\ \A u \in 1..(t-1) : thr[u].pc # "idle"
  /\ SetSup(WhileEnter(Sup, t, 1))
  /\ thr'[t].pc # "idle"
  /\ UNCHANGED <<callVars, maintVars, stagingVars, slurmVars, budget, jobPoolCapacities, destroyed, pushLog, is_testing, is_community_account, db, secretStore, events, queues, sub, nSubmits,
                 nConnFail, nInitErr, nCtorErr, nCancels, lastCancel>>

\* `await this.queues[hpcName].isEmpty()` answers (LLEN)
IsEmptyReturn(t) ==
  /\ thr[t].pc = "isEmpty"
  /\ IF queues[HPCs[thr[t].h]] = <<>>
     THEN SetSup(WhileEnter(Sup, t, thr[t].h + 1))
     ELSE SetSup([Sup EXCEPT !.thr[t].pc = "pop"])
  /\ UNCHANGED <<callVars, maintVars, stagingVars, slurmVars, budget, jobPoolCapacities, destroyed, pushLog, is_testing, is_community_account, db, secretStore, events, queues, sub, nSubmits,
                 nConnFail, nInitErr, nCtorErr, nCancels, lastCancel>>

\* a pop that reads the head of the list (LINDEX 0) instead of removing it
PopReturn_Peek(t) ==
  /\ thr[t].pc = "pop"
  /\ LET q == queues[HPCs[thr[t].h]] IN
     IF q = <<>>
     THEN SetSup(WhileEnter(Sup, t, thr[t].h))
     ELSE SetSup([Sup EXCEPT !.thr[t].pc = "hydrate", !.thr[t].jid = Head(q)])
  /\ UNCHANGED <<callVars, maintVars, stagingVars, slurmVars, budget, jobPoolCapacities, destroyed, pushLog, is_testing, is_community_account, db, secretStore, events, queues, sub, nSubmits,
                 nConnFail, nInitErr, nCtorErr, nCancels, lastCancel>>

\* JobQueue.pop: LPOP answers; null makes the loop `continue`, an id goes on
\* to getJobById
PopReturn(t) ==
  /\ thr[t].pc = "pop"
  /\ LET q == queues[HPCs[thr[t].h]] IN
     IF q = <<>>
     THEN /\ SetSup(WhileEnter(Sup, t, thr[t].h))
          /\ UNCHANGED queues
     ELSE /\ queues' = [queues EXCEPT ![HPCs[thr[t].h]] = Tail(q)]
          /\ SetSup([Sup EXCEPT !.thr[t].pc = "hydrate", !.thr[t].jid = Head(q)])
  /\ UNCHANGED <<callVars, maintVars, stagingVars, slurmVars, budget, jobPoolCapacities, destroyed, pushLog, is_testing, is_community_account, db, secretStore, events, sub, nSubmits,
                 nConnFail, nInitErr, nCtorErr, nCancels, lastCancel>>

\* a freshly hydrated Job with its maintainerInstance
NewJob(j) == [id |-> j, hpc |-> db[j].hpc,
              hasCredential |-> (db[j].credentialId \in secretStore),
              isInit |-> FALSE, isEnd |-> FALSE, jobOnHpc |-> FALSE,
              initCounter |-> 0, polls |-> 0, buf |-> <<>>,
              cancelAsked |-> FALSE, missed |-> FALSE, onCancelCalls |-> 0,
              crashed |-> FALSE, done |-> FALSE]

\* an admission that pushes the job to runningJobs and forgets
\* `this.jobPoolCounters[hpcName]++`
Admit_NoCount(S, t, hpcName, j) ==
  LET r == Len(S.inst) + 1
      job == NewJob(j)
      pool1 == IF is_community_account[job.hpc]
               THEN [S.pool EXCEPT ![job.hpc].counter = @ + 1]
               ELSE [S.pool EXCEPT ![job.id] =
                        [present |-> TRUE, counter |-> 1, connected |-> FALSE]]
  IN [S EXCEPT !.inst = Append(@, job),
               !.run[job.hpc] = Append(@, r),
               !.pool = pool1,
               !.thr[t] = [pc |-> "register", h |-> S.thr[t].h, ref |-> r, jid |-> j]]

\* the admission of a hydrated job: push to runningJobs, count the slot,
\* take the shell in the pool
Admit(S, t, hpcName, j) ==
  LET r == Len(S.inst) + 1
      job == NewJob(j)
      pool1 == IF is_community_account[job.hpc]
               THEN [S.pool EXCEPT ![job.hpc].counter = @ + 1]
               ELSE [S.pool EXCEPT ![job.id] =
                        [present |-> TRUE, counter |-> 1, connected |-> FALSE]]
  IN [S EXCEPT !.inst = Append(@, job),
               !.run[job.hpc] = Append(@, r),
               !.cnt[hpcName] = @ + 1,
               !.pool = pool1,
               !.thr[t] = [pc |-> "register", h |-> S.thr[t].h, ref |-> r, jid |-> j]]

\* a catch branch that registers JOB_INIT_ERROR and admits the job all the same
HydrateReturn_AdmitAnyway(t, ok) ==
  /\ thr[t].pc = "hydrate"
  /\ IF ok
     THEN /\ SetSup(Admit(Sup, t, HPCs[thr[t].h], thr[t].jid))
          /\ UNCHANGED <<db, events, nCtorErr>>
     ELSE /\ nCtorErr < budget.ctorErr
          /\ nCtorErr' = nCtorErr + 1
          /\ events' = [events EXCEPT ![thr[t].jid] = Append(@, "JOB_INIT_ERROR")]
          /\ db' = [db EXCEPT ![thr[t].jid].finishedAt = @ + 1]
          /\ SetSup(Admit(Sup, t, HPCs[thr[t].h], thr[t].jid))
  /\ UNCHANGED <<callVars, maintVars, stagingVars, slurmVars, budget, jobPoolCapacities, destroyed, pushLog, is_testing, is_community_account, secretStore, queues,
                 sub, nSubmits, nConnFail, nInitErr, nCancels, lastCancel>>

\* getJobById answers.  If `new maintainer(job)` throws, JOB_INIT_ERROR is
\* registered, finishedAt is set and saved, and the loop continues; otherwise
\* the job is admitted and JOB_REGISTERED is awaited
HydrateReturn(t, ok) ==
  /\ thr[t].pc = "hydrate"
  /\ IF ok
     THEN /\ SetSup(Admit(Sup, t, HPCs[thr[t].h], thr[t].jid))
          /\ UNCHANGED <<db, events, nCtorErr>>
     ELSE /\ nCtorErr < budget.ctorErr
          /\ nCtorErr' = nCtorErr + 1
          /\ events' = [events EXCEPT ![thr[t].jid] = Append(@, "JOB_INIT_ERROR")]
          /\ db' = [db EXCEPT ![thr[t].jid].finishedAt = @ + 1]
          /\ SetSup(WhileEnter(Sup, t, thr[t].h))
  /\ UNCHANGED <<callVars, maintVars, stagingVars, slurmVars, budget, jobPoolCapacities, destroyed, pushLog, is_testing, is_community_account, secretStore, queues,
                 sub, nSubmits, nConnFail, nInitErr, nCancels, lastCancel>>

\* JOB_REGISTERED is saved; createMaintainerWorker starts its loop
RegisterReturn(t) ==
  /\ thr[t].pc = "register"
  /\ RegisterEvents(thr[t].jid, <<"JOB_REGISTERED">>)
  /\ SetSup(LoopTop(Sup, t, thr[t].ref))
  /\ UNCHANGED <<callVars, maintVars, stagingVars, slurmVars, budget, jobPoolCapacities, destroyed, pushLog, is_testing, is_community_account, secretStore, queues, sub, nSubmits,
                 nConnFail, nInitErr, nCtorErr, nCancels, lastCancel>>

(***************************************************************************)
(* Supervisor.createMaintainerWorker: the worker loop                      *)
(***************************************************************************)
\* runCommandWithBackoff(connect) settles: the shell is connected, or the
\* backoff is exhausted and JOB_FAILED is registered; either way the loop
\* goes on to call init() or maintain()
ConnectReturn(t, ok) ==
  /\ thr[t].pc = "w_conn"
  /\ LET r == thr[t].ref
         k == PoolKey(inst[r]) IN
     IF ok
     THEN /\ SetSup([Sup EXCEPT !.pool[k].connected = TRUE,
                                !.thr[t].pc = "w_run"])
          /\ UNCHANGED <<db, events, nConnFail>>
     ELSE /\ nConnFail < budget.connFail
          /\ nConnFail' = nConnFail + 1
          /\ RegisterEvents(thr[t].jid, <<"JOB_FAILED">>)
          /\ SetSup([Sup EXCEPT !.thr[t].pc = "w_run"])
  /\ UNCHANGED <<callVars, maintVars, stagingVars, slurmVars, budget, jobPoolCapacities, destroyed, pushLog, is_testing, is_community_account, secretStore, queues, sub, nSubmits, nInitErr,
                 nCtorErr, nCancels, lastCancel>>

\* init() or maintain() returns (whichever isInit selected when it was
\* called), the dumped events are registered one by one, then the cancel
\* check and the ending check run.  The awaits of the registrations touch
\* the events and jobs tables only, so they are taken in the same step.
RunReturn(t, outcome) ==
  /\ thr[t].pc = "w_run"
  /\ LET r == thr[t].ref
         m == inst[r]
         m1 == IF m.isInit THEN OnMaintain(m, outcome) ELSE MaintainerInit(m, outcome)
     IN
     /\ outcome \in (IF m.isInit THEN MaintainOutcomes(m, connectionPool[PoolKey(m)].connected)
                     ELSE InitOutcomes(connectionPool[PoolKey(m)].connected))
     /\ nInitErr' = IF /\ ~m.isInit /\ m.initCounter < initRetry /\ outcome = "err"
                       /\ connectionPool[PoolKey(m)].connected
                    THEN nInitErr + 1 ELSE nInitErr
     /\ RegisterEvents(thr[t].jid, m1.buf)
     /\ SetSup(CancelCheck([Sup EXCEPT !.inst[r] = [m1 EXCEPT !.buf = <<>>]], t, r))
  /\ UNCHANGED <<callVars, maintVars, stagingVars, slurmVars, budget, jobPoolCapacities, destroyed, pushLog, is_testing, is_community_account, secretStore, queues, sub, nSubmits,
                 nConnFail, nCtorErr, nCancels, lastCancel>>

\* onCancel() returns (connector.cancel() ran scancel); one entry of the job
\* leaves the cancel set, then the ending check runs
OnCancelReturn(S, t, r) ==
  EndCheck([S EXCEPT !.inst[r].onCancelCalls = @ + 1,
                     !.inst[r].cancelAsked = FALSE,
                     !.can[S.inst[r].hpc] = RemoveFirst(@, r)], t, r)

CancelReturn(t) ==
  /\ thr[t].pc = "w_cancel"
  /\ SetSup(OnCancelReturn(Sup, t, thr[t].ref))
  /\ UNCHANGED <<callVars, maintVars, stagingVars, slurmVars, budget, jobPoolCapacities, destroyed, pushLog, is_testing, is_community_account, db, secretStore, events, queues, sub, nSubmits,
                 nConnFail, nInitErr, nCtorErr, nCancels, lastCancel>>

(***************************************************************************)
(* Supervisor.cancelJob                                                    *)
(***************************************************************************)
\* a scan that drops the comparison `job.id === jobId.toString()`
CancelMatches_AnyId(S, jobId) ==
  IF is_testing
  THEN {p \in (1..Len(HPCs)) \X (1..Len(S.inst)) : p[2] <= Len(S.run[HPCs[p[1]]])}
  ELSE {}

\* the running jobs cancelJob finds: <<position of the cluster, position in
\* runningJobs>>; the scan of runningJobs sits inside `if (config.is_testing)`
CancelMatches(S, jobId) ==
  IF is_testing
  THEN {p \in (1..Len(HPCs)) \X (1..Len(S.inst)) :
          /\ p[2] <= Len(S.run[HPCs[p[1]]])
          /\ S.inst[S.run[HPCs[p[1]]][p[2]]].id = jobId}
  ELSE {}

\* the last match of the scan is the one kept in toReturn / hpcToAdd
CancelFound(S, jobId) ==
  LET M == CancelMatches(S, jobId) IN
  IF M = {} THEN <<0, 0>>
  ELSE CHOOSE p \in M : \A q \in M : q[1] < p[1] \/ (q[1] = p[1] /\ q[2] <= p[2])

\* PUT /job/:jobId/cancel -> supervisor.cancelJob(jobId)
CancelJob(jobId) ==
  /\ nCancels < budget.cancels
  /\ nCancels' = nCancels + 1
  /\ LET p == CancelFound(Sup, jobId)
         ret == IF p[1] = 0 THEN 0 ELSE runningJobs[HPCs[p[1]]][p[2]]
         live == {r \in 1..Len(inst) : inst[r].id = jobId /\
                     r \in Range(runningJobs[inst[r].hpc])}
     IN /\ cancelJobs' = IF ret = 0 THEN cancelJobs
                         ELSE [cancelJobs EXCEPT ![HPCs[p[1]]] = Append(@, ret)]
        /\ inst' = [r \in 1..Len(inst) |->
                      IF r \in live /\ inst[r].jobOnHpc
                      THEN [inst[r] EXCEPT !.cancelAsked = TRUE] ELSE inst[r]]
        /\ lastCancel' = [id |-> jobId, ret |-> ret,
                          queued |-> \E c \in HpcNames : jobId \in Range(queues[c])]
  /\ UNCHANGED <<callVars, maintVars, stagingVars, slurmVars, budget, jobPoolCapacities, destroyed, pushLog, is_testing, is_community_account, db, secretStore, events, queues, sub, nSubmits,
                 jobPoolCounters, runningJobs, connectionPool, thr, nConnFail, nInitErr, nCtorErr>>

(***************************************************************************)
(* Specification                                                           *)
(***************************************************************************)
\* the ids a run of this profile uses as inputs
Known == {GeneratedIds[i] : i \in 1..budget.jobs}

Next ==
  \/ \E j \in JobIds, c \in HpcNames : CreateJob(j, c)
  \/ \E j \in JobIds : SubmitPush(j)
  \/ \E j \in JobIds : SubmitEvent(j)
  \/ \E j \in JobIds : SubmitUpdate(j)
  \/ \E t \in DOMAIN thr : TickFire(t)
  \/ \E t \in DOMAIN thr : IsEmptyReturn(t)
  \/ \E t \in DOMAIN thr : PopReturn(t)
  \/ \E t \in DOMAIN thr, ok \in BOOLEAN : HydrateReturn(t, ok)
  \/ \E t \in DOMAIN thr : RegisterReturn(t)
  \/ \E t \in DOMAIN thr, ok \in BOOLEAN : ConnectReturn(t, ok)
  \/ \E t \in DOMAIN thr, o \in {"ok", "err", "failed", "completed", "running"} :
        RunReturn(t, o)
  \/ \E t \in DOMAIN thr : CancelReturn(t)
  \/ \E j \in Known : CancelJob(j)

Spec == Init /\ [][Next]_vars

(***************************************************************************)
(* The Supervisor with awaited calls of the worker loop that reject: the   *)
(* jobs-table UPDATE of registerEvents and onCancel().  The loop has no    *)
(* try around them, so the rejection ends createMaintainerWorker and the  *)
(* tick callback that awaits it.                                           *)
(***************************************************************************)
\* the position of the first event of buf whose registration updates the jobs
\* table, 0 when there is none
RECURSIVE FirstLifecycle(_, _)
FirstLifecycle(buf, i) ==
  IF i > Len(buf) THEN 0
  ELSE IF buf[i] \in {"JOB_INIT"} \cup TerminalEvents THEN i
  ELSE FirstLifecycle(buf, i + 1)

\* createMaintainerWorker rejects: nothing after the rejected await runs
WorkerRejects(S, t, r) == [S EXCEPT !.thr[t] = IdleThread, !.inst[r].crashed = TRUE]

\* init() or maintain() returns and the registration of a dumped lifecycle
\* event rejects at its jobs-table UPDATE: the events dumped before it are
\* registered, the rest of the iteration is skipped
EventWriteThrows(t, outcome) ==
  /\ thr[t].pc = "w_run"
  /\ LET r == thr[t].ref
         m == inst[r]
         m1 == IF m.isInit THEN OnMaintain(m, outcome) ELSE MaintainerInit(m, outcome)
         i == FirstLifecycle(m1.buf, 1)
     IN
     /\ outcome \in (IF m.isInit THEN MaintainOutcomes(m, connectionPool[PoolKey(m)].connected)
                     ELSE InitOutcomes(connectionPool[PoolKey(m)].connected))
     /\ i > 0
     /\ nInitErr' = IF /\ ~m.isInit /\ m.initCounter < initRetry /\ outcome = "err"
                       /\ connectionPool[PoolKey(m)].connected
                    THEN nInitErr + 1 ELSE nInitErr
     /\ RegisterEvents(thr[t].jid, SubSeq(m1.buf, 1, i - 1))
     /\ SetSup(WorkerRejects([Sup EXCEPT !.inst[r] = [m1 EXCEPT !.buf = <<>>]], t, r))
  /\ UNCHANGED <<callVars, maintVars, stagingVars, slurmVars, budget, jobPoolCapacities, destroyed, pushLog, is_testing, is_community_account, secretStore, queues, sub, nSubmits,
                 nConnFail, nCtorErr, nCancels, lastCancel>>

\* onCancel() rejects (connector.cancel() threw)
CancelThrows(t) ==
  /\ thr[t].pc = "w_cancel"
  /\ SetSup(WorkerRejects([Sup EXCEPT !.inst[thr[t].ref].onCancelCalls = @ + 1], t, thr[t].ref))
  /\ UNCHANGED <<callVars, maintVars, stagingVars, slurmVars, budget, jobPoolCapacities, destroyed, pushLog, is_testing, is_community_account, db, secretStore, events, queues, sub, nSubmits,
                 nConnFail, nInitErr, nCtorErr, nCancels, lastCancel>>

InitThrows ==
  /\ Init
  /\ budget = Faulty

NextThrows ==
  \/ Next
  \/ \E t \in DOMAIN thr, o \in {"ok", "failed", "completed"} : EventWriteThrows(t, o)
  \/ \E t \in DOMAIN thr : CancelThrows(t)

SpecThrows == InitThrows /\ [][NextThrows]_vars

(***************************************************************************)
(* A burst: the state after POST /job and POST /job/:jobId/submit have     *)
(* completed for j1, j2, j3 in that order and before the first tick, then  *)
(* ticks, workers and destroy()                                            *)
(***************************************************************************)
\* the jobs row POST /job and the completed submit leave for job j
QueuedRow(j, c, community) ==
  [NoRow EXCEPT !.exists = TRUE, !.hpc = c, !.queuedAt = TRUE,
                !.credentialId = IF community THEN NoCred ELSE j]

InitBurst ==
  /\ budget = Burst
  /\ jobPoolCapacities = job_pool_capacity(budget)
  /\ destroyed = FALSE
  /\ is_testing = FALSE
  /\ is_community_account \in [HpcNames -> BOOLEAN]
  /\ db = [j \in JobIds |-> QueuedRow(j, HPCs[1], is_community_account[HPCs[1]])]
  /\ secretStore = IF is_community_account[HPCs[1]] THEN {} ELSE JobIds
  /\ events = [j \in JobIds |-> <<"JOB_QUEUED">>]
  /\ queues = [c \in HpcNames |-> IF c = HPCs[1] THEN GeneratedIds ELSE <<>>]
  /\ pushLog = queues
  /\ sub = [j \in JobIds |-> [event |-> 0, update |-> 0]]
  /\ nSubmits = 0
  /\ jobPoolCounters = [c \in HpcNames |-> 0]
  /\ runningJobs = [c \in HpcNames |-> <<>>]
  /\ cancelJobs = [c \in HpcNames |-> <<>>]
  /\ connectionPool = InitialPool(is_community_account)
  /\ inst = <<>>
  /\ thr = [t \in 1..budget.ticks |-> IdleThread]
  /\ nConnFail = 0
  /\ nInitErr = 0
  /\ nCtorErr = 0
  /\ nCancels = 0
  /\ lastCancel = [id |-> NoJob, ret |-> 0, queued |-> FALSE]
  /\ NothingStaged
  /\ NothingCalled
  /\ NoTimeGiven
  /\ NothingValidated
  /\ NothingMaintained

\* Supervisor.destroy: clearInterval(this.maintainerMasterThread); callbacks
\* that already started are not touched
Destroy ==
  /\ ~destroyed
  /\ destroyed' = TRUE
  /\ UNCHANGED <<callVars, maintVars, stagingVars, slurmVars, budget, jobPoolCapacities, pushLog, is_testing, is_community_account,
                 db, secretStore, events, queues, sub, nSubmits, jobPoolCounters,
                 runningJobs, cancelJobs, connectionPool, inst, thr, nConnFail,
                 nInitErr, nCtorErr, nCancels, lastCancel>>

NextBurst ==
  \/ \E t \in DOMAIN thr : TickFire(t)
  \/ \E t \in DOMAIN thr : IsEmptyReturn(t)
  \/ \E t \in DOMAIN thr : PopReturn(t)
  \/ \E t \in DOMAIN thr : HydrateReturn(t, TRUE)
  \/ \E t \in DOMAIN thr : RegisterReturn(t)
  \/ \E t \in DOMAIN thr : ConnectReturn(t, TRUE)
  \/ \E t \in DOMAIN thr, o \in {"ok", "failed", "completed"} : RunReturn(t, o)
  \/ Destroy

SpecBurst == InitBurst /\ [][NextBurst]_vars

(***************************************************************************)
(* CachedFolderUploader / GitFolderUploader: the cached upload of a git    *)
(* folder to one cluster.  u is the uploader together with what it sees of *)
(* the cluster and the caches table: zip, row, and what the call did so    *)
(* far.                                                                    *)
(***************************************************************************)
\* `* 1000` in uploadToCache: seconds to milliseconds
MsPerSecond == 1000

\* new GitFolderUploader(...): nothing uploaded yet
NewUploader == [zip |-> remoteZip, row |-> cacheRow, isComplete |-> FALSE,
                isFailed |-> FALSE, uploads |-> 0, unzips |-> 0,
                ok |-> TRUE, served |-> NoZip]

cacheExists(u) == u.zip # NoZip

clearCache(u) == IF ~cacheExists(u) THEN u ELSE [u EXCEPT !.zip = NoZip]

\* the zip of the current checkout is uploaded to the cache path
uploadToPath(u) ==
  [u EXCEPT !.zip = lastCommit, !.uploads = @ + 1, !.isComplete = TRUE]

getUpdateTime(u) == IF u.row.present THEN u.row.updatedAt ELSE -1

\* a new row gets createdAt = updatedAt = now (@BeforeInsert); for a row that
\* exists, Cache.update() sets createdAt on the loaded object and nothing is
\* saved
registerCache(u) ==
  IF u.isComplete /\ ~u.isFailed /\ ~u.row.present
  THEN [u EXCEPT !.row = [present |-> TRUE, createdAt |-> now, updatedAt |-> now]]
  ELSE u

\* GitFolderUploader.uploadToCache
uploadToCache(u) ==
  IF getUpdateTime(u) < lastCommit * MsPerSecond
  THEN registerCache(uploadToPath(u))
  ELSE u

refreshCache(u) == uploadToCache(clearCache(u))

\* connector.unzip(cachePath, hpcPath): fails when there is no zip
pullFromCache(u) ==
  IF cacheExists(u)
  THEN [u EXCEPT !.unzips = @ + 1, !.served = u.zip]
  ELSE [u EXCEPT !.unzips = @ + 1, !.ok = FALSE]

\* a cachedUpload that rebuilds whether or not the zip is there
cachedUpload_AlwaysRefresh(u) == pullFromCache(refreshCache(u))

cachedUpload(u) ==
  pullFromCache(IF ~cacheExists(u) THEN refreshCache(u) ELSE u)

\* FolderUploaderHelper.cachedUploadGit for the one git folder, by the next
\* job: a new uploader (with a fresh id, hence a fresh hpcPath), init(),
\* cachedUpload()
CachedUploadGit ==
  /\ Len(stages) < MaxStages
  /\ LET u == cachedUpload(NewUploader) IN
     /\ remoteZip' = u.zip
     /\ cacheRow' = u.row
     /\ stages' = Append(stages, [id |-> Len(stages) + 1, commit |-> lastCommit,
                                  uploads |-> u.uploads, unzips |-> u.unzips,
                                  ok |-> u.ok, served |-> u.served])
  /\ UNCHANGED <<callVars, maintVars, supVars, slurmVars, now, lastCommit, nWipes>>

\* time passes
ClockAdvance ==
  /\ now < MsPerSecond + 500 * MaxClock
  /\ now' = now + 500
  /\ UNCHANGED <<callVars, maintVars, supVars, slurmVars, lastCommit, remoteZip, cacheRow, stages, nWipes>>

\* a commit is pulled into the local checkout; git keeps its time in seconds
GitCommit ==
  /\ now \div MsPerSecond > lastCommit
  /\ lastCommit' = now \div MsPerSecond
  /\ UNCHANGED <<callVars, maintVars, supVars, slurmVars, now, remoteZip, cacheRow, stages, nWipes>>

\* the cluster purges its scratch space: the zip is gone, the row is not
WipeScratch ==
  /\ nWipes < MaxWipes
  /\ remoteZip # NoZip
  /\ nWipes' = nWipes + 1
  /\ remoteZip' = NoZip
  /\ UNCHANGED <<callVars, maintVars, supVars, slurmVars, now, lastCommit, cacheRow, stages>>

InitCache ==
  /\ Init
  /\ budget = Closed
  /\ is_testing = FALSE
  /\ \A c \in HpcNames : is_community_account[c]

NextCache ==
  \/ CachedUploadGit
  \/ ClockAdvance
  \/ GitCommit
  \/ WipeScratch

SpecCache == InitCache /\ [][NextCache]_vars

(***************************************************************************)
(* Submitting a job with a Slurm request: POST /job/:jobId/submit on a     *)
(* cluster whose hpc config carries slurm_input_rules and slurm_global_cap *)
(***************************************************************************)
\* one job, created by POST /job and given its slurm object by PUT /job/:jobId
Single == [Closed EXCEPT !.jobs = 1]

\* the rules, caps and requests the runs draw from, per field
RuleChoices(f) ==
  CASE f = "num_of_node" -> {NoValue, [set |-> TRUE, max |-> 10, unit |-> "None"],
                             [set |-> TRUE, max |-> 100, unit |-> "None"]}
    [] f = "memory" -> {NoValue, [set |-> TRUE, max |-> 10, unit |-> "G"],
                        [set |-> TRUE, max |-> 100, unit |-> "G"]}
    [] f = "time" -> {NoValue, [set |-> TRUE, max |-> 30, unit |-> "Minutes"],
                      [set |-> TRUE, max |-> 20, unit |-> "Hours"]}

CapChoices(f) ==
  CASE f = "num_of_node" -> {NoValue, IntV(20)}
    [] f = "memory" -> {NoValue, MemV(20, "G")}
    [] f = "time" -> {NoValue, TimeV(-1, <<5, 0, 0>>)}

RequestChoices(f) ==
  CASE f = "num_of_node" -> {NoValue, IntV(5), IntV(60), IntV(200)}
    [] f = "memory" -> {NoValue, MemV(5, "G"), MemV(61440, "M")}
    [] f = "time" -> {NoValue, TimeV(-1, <<1, 0, 0>>), TimeV(-1, <<12, 0, 0>>)}

\* the fields the runs vary; the other fields stay undefined
PerField(a, b, c) ==
  [f \in SlurmFields |-> CASE f = "num_of_node" -> a
                           [] f = "memory" -> b
                           [] f = "time" -> c
                           [] OTHER -> NoValue]

\* JobUtil.validateJob of a job that has its executable folder and whose
\* params meet the manifest: what is left is validateSlurmConfig(job, {})
validateJob(req) == validateSlurmConfig(hpcRules, hpcCap, req)

\* POST /job/:jobId/submit up to its first await: the row is read,
\* `if (job.queuedAt)` rejects, validateJob runs, and only when it returns
\* does pushJobToQueue push the id; when it throws the catch answers 402
SubmitRoute(j) ==
  /\ db[j].exists
  /\ ~db[j].queuedAt
  /\ nSubmits < budget.submits
  /\ nSubmits' = nSubmits + 1
  /\ verdict' = validateJob(slurmReq)
  /\ IF verdict'.status = "ok"
     THEN /\ queues' = [queues EXCEPT ![db[j].hpc] = Append(@, j)]
          /\ pushLog' = [pushLog EXCEPT ![db[j].hpc] = Append(@, j)]
          /\ sub' = [sub EXCEPT ![j].event = @ + 1]
     ELSE UNCHANGED <<queues, pushLog, sub>>
  /\ UNCHANGED <<callVars, maintVars, stagingVars, hpcRules, hpcCap, slurmReq, budget, jobPoolCapacities,
                 destroyed, is_testing, is_community_account, db, secretStore, events,
                 jobPoolCounters, runningJobs, cancelJobs, connectionPool, inst,
                 thr, nConnFail, nInitErr, nCtorErr, nCancels, lastCancel>>

InitSlurm ==
  /\ budget = Single
  /\ jobPoolCapacities = job_pool_capacity(budget)
  /\ destroyed = FALSE
  /\ pushLog = [c \in HpcNames |-> <<>>]
  /\ is_testing = FALSE
  /\ is_community_account = [c \in HpcNames |-> TRUE]
  /\ db = [j \in JobIds |-> IF j \in Known
                             THEN [NoRow EXCEPT !.exists = TRUE, !.hpc = HPCs[1]]
                             ELSE NoRow]
  /\ secretStore = {}
  /\ events = [j \in JobIds |-> <<>>]
  /\ queues = [c \in HpcNames |-> <<>>]
  /\ sub = [j \in JobIds |-> [event |-> 0, update |-> 0]]
  /\ nSubmits = 0
  /\ jobPoolCounters = [c \in HpcNames |-> 0]
  /\ runningJobs = [c \in HpcNames |-> <<>>]
  /\ cancelJobs = [c \in HpcNames |-> <<>>]
  /\ connectionPool = InitialPool(is_community_account)
  /\ inst = <<>>
  /\ thr = [t \in 1..budget.ticks |-> IdleThread]
  /\ nConnFail = 0
  /\ nInitErr = 0
  /\ nCtorErr = 0
  /\ nCancels = 0
  /\ lastCancel = [id |-> NoJob, ret |-> 0, queued |-> FALSE]
  /\ NothingStaged
  /\ NothingCalled
  /\ NoTimeGiven
  /\ hpcRules \in {PerField(a, b, c) : a \in RuleChoices("num_of_node"), b \in RuleChoices("memory"),
                                    c \in RuleChoices("time")}
  /\ hpcCap \in {PerField(a, b, c) : a \in CapChoices("num_of_node"), b \in CapChoices("memory"),
                                  c \in CapChoices("time")}
  /\ NothingMaintained
  /\ slurmReq \in {PerField(a, b, c) : a \in RequestChoices("num_of_node"), b \in RequestChoices("memory"),
                                    c \in RequestChoices("time")}
  /\ verdict = NotValidated

NextSlurm ==
  \/ \E j \in Known : SubmitRoute(j)
  \/ \E j \in Known : SubmitEvent(j)
  \/ \E j \in Known : SubmitUpdate(j)

SpecSlurm == InitSlurm /\ [][NextSlurm]_vars

(***************************************************************************)
(* One maintainer driven the way the worker loop drives it: init() until   *)
(* isInit, then maintain() until isEnd; every await may throw              *)
(***************************************************************************)
\* the listings getRemoteResultFolderContent answers
Listings == {<<>>, <<"/log">>, <<"/log", "/out">>, <<"out", "/log">>}

\* init() is called: BaseMaintainer.init gives up once initRetry attempts were
\* made, otherwise onInit starts and runs to its first await
CallInit ==
  /\ mnt.pc \in {"idle", "returned"}
  /\ ~mnt.isInit /\ ~mnt.isEnd
  /\ mnt' = IF mnt.initCounter >= initRetry
            THEN [MaintainerEmit(mnt, "JOB_FAILED") EXCEPT !.pc = "returned"]
            ELSE IF ~mnt.gitExecutable THEN InitCatch([mnt EXCEPT !.run = <<>>])
            ELSE [mnt EXCEPT !.pc = "findGit", !.run = <<>>]
  /\ UNCHANGED <<callVars, supVars, stagingVars, slurmVars, resultContent>>

\* the await onInit is suspended at settles: it resolves, or it rejects and
\* the catch runs
InitOpReturn(ok) ==
  /\ mnt.pc \in InitOps
  /\ mnt' = IF ok THEN InitAfter(Did(mnt, mnt.pc), mnt.pc) ELSE InitCatch(mnt)
  /\ UNCHANGED <<callVars, supVars, stagingVars, slurmVars, resultContent>>

\* maintain() is called; onMaintain awaits connector.getStatus()
CallMaintain ==
  /\ mnt.pc = "returned"
  /\ mnt.isInit /\ ~mnt.isEnd
  /\ mnt.polls <= MaxPolls
  /\ mnt' = [mnt EXCEPT !.pc = "getStatus", !.polls = @ + 1, !.run = <<>>,
                        !.status = "none"]
  /\ UNCHANGED <<callVars, supVars, stagingVars, slurmVars, resultContent>>

\* getStatus() answers
StatusReturn(status) ==
  /\ mnt.pc = "getStatus"
  /\ mnt' = StatusAfter(Did(mnt, "getStatus"), status)
  /\ UNCHANGED <<callVars, supVars, stagingVars, slurmVars, resultContent>>

\* getStatus() throws
StatusThrows ==
  /\ mnt.pc = "getStatus"
  /\ mnt' = MaintainCatch(mnt)
  /\ UNCHANGED <<callVars, supVars, stagingVars, slurmVars, resultContent>>

\* an await of the complete branch settles; the listing is what
\* getRemoteResultFolderContent answers, and put writes it to the store
MaintainOpReturn(ok, listing) ==
  /\ mnt.pc \in MaintainOps
  /\ IF ~ok
     THEN /\ mnt' = MaintainCatch(mnt)
          /\ UNCHANGED resultContent
     ELSE /\ mnt' = MaintainAfter(
                      IF mnt.pc = "getRemoteResultFolderContent"
                      THEN [Did(mnt, mnt.pc) EXCEPT !.contents = Sorted(listing, mnt.defaultPath)]
                      ELSE Did(mnt, mnt.pc), mnt.pc)
          /\ resultContent' = IF mnt.pc = "put"
                              THEN [stored |-> TRUE, contents |-> mnt.contents]
                              ELSE resultContent
  /\ UNCHANGED <<callVars, supVars, stagingVars, slurmVars>>

InitMaintainer ==
  /\ budget = Closed
  /\ jobPoolCapacities = job_pool_capacity(budget)
  /\ destroyed = FALSE
  /\ pushLog = [c \in HpcNames |-> <<>>]
  /\ is_testing = FALSE
  /\ is_community_account = [c \in HpcNames |-> TRUE]
  /\ db = [j \in JobIds |-> NoRow]
  /\ secretStore = {}
  /\ events = [j \in JobIds |-> <<>>]
  /\ queues = [c \in HpcNames |-> <<>>]
  /\ sub = [j \in JobIds |-> [event |-> 0, update |-> 0]]
  /\ nSubmits = 0
  /\ jobPoolCounters = [c \in HpcNames |-> 0]
  /\ runningJobs = [c \in HpcNames |-> <<>>]
  /\ cancelJobs = [c \in HpcNames |-> <<>>]
  /\ connectionPool = InitialPool(is_community_account)
  /\ inst = <<>>
  /\ thr = [t \in 1..budget.ticks |-> IdleThread]
  /\ nConnFail = 0
  /\ nInitErr = 0
  /\ nCtorErr = 0
  /\ nCancels = 0
  /\ lastCancel = [id |-> NoJob, ret |-> 0, queued |-> FALSE]
  /\ NothingStaged
  /\ NothingCalled
  /\ NoTimeGiven
  /\ NothingValidated
  /\ \E g \in BOOLEAN, d \in BOOLEAN, p \in {"none", "out", "/out"} :
        mnt = [NewMaintainer(g, d) EXCEPT !.defaultPath = p]
  /\ resultContent = NoListing

NextMaintainer ==
  \/ CallInit
  \/ \E ok \in BOOLEAN : InitOpReturn(ok)
  \/ CallMaintain
  \/ \E status \in Statuses : StatusReturn(status)
  \/ StatusThrows
  \/ \E ok \in BOOLEAN, listing \in Listings : MaintainOpReturn(ok, listing)

SpecMaintainer == InitMaintainer /\ [][NextMaintainer]_vars

(***************************************************************************)
(* Folder uploads followed await by await: cachedUploadGit, refreshCache   *)
(* and the empty-folder upload, by two callers at once, on one cluster and *)
(* one cache path, with remote and database writes that may fail           *)
(***************************************************************************)
\* new BaseFolderUploader(...): a fresh id, hpcPath = path.join(root_path, id)
NewFolderUploader(kind, id) ==
  [NoUpload EXCEPT !.kind = kind, !.id = id, !.hpcPath = <<root_path, id>>,
                   !.outcome = "pending"]

\* the call of caller k rejects: the error reaches the caller of the upload
UploadThrows(u, what) == [u EXCEPT !.pc = "done", !.outcome = "threw", !.lost = what]

\* the call of caller k resolves
UploadResolves(u) == [u EXCEPT !.pc = "done", !.outcome = "ok"]

\* refreshCache() has returned: cachedUpload goes on to pullFromCache, a bare
\* refreshCache() resolves
AfterRefresh(u) ==
  IF u.kind = "cachedUpload" THEN [u EXCEPT !.pc = "unzip"] ELSE UploadResolves(u)

\* BaseFolderUploader.register(): saves the Folder row of a complete upload
Register(u) ==
  IF u.isComplete /\ ~u.isFailed THEN [u EXCEPT !.pc = "folderSave"] ELSE AfterRefresh(u)

StagingUnchanged == UNCHANGED <<supVars, slurmVars, maintVars, emitCall, timeCall, now, lastCommit, stages, nWipes>>

\* a caller starts cachedUploadGit (init(), then cachedUpload up to
\* `await this.cacheExists()`), refreshCache() (up to the cacheExists of
\* clearCache) or the upload of an empty folder (up to mkdir)
StartUpload(k, kind) ==
  /\ upl[k].pc \in {"idle", "done"}
  /\ nCalls < MaxCalls
  /\ nCalls' = nCalls + 1
  /\ upl' = [upl EXCEPT ![k] =
       [NewFolderUploader(kind, nCalls + 1) EXCEPT
          !.pc = CASE kind = "cachedUpload" -> "exists"
                   [] kind = "refreshCache" -> "clearExists"
                   [] kind = "empty" -> "mkdir"]]
  /\ UNCHANGED <<remoteZip, cacheRow, folderRows, nFaults>>
  /\ StagingUnchanged

\* cachedUpload: `if (!(await this.cacheExists()))`
ExistsReturn(k) ==
  /\ upl[k].pc = "exists"
  /\ upl' = [upl EXCEPT ![k].pc = IF remoteZip # NoZip THEN "unzip" ELSE "clearExists"]
  /\ UNCHANGED <<remoteZip, cacheRow, folderRows, nFaults, nCalls>>
  /\ StagingUnchanged

\* clearCache: `if (!(await this.cacheExists())) return;`, then uploadToCache
\* up to `await GitUtil.findGit`
ClearExistsReturn(k) ==
  /\ upl[k].pc = "clearExists"
  /\ upl' = [upl EXCEPT ![k].pc = IF remoteZip # NoZip THEN "rm" ELSE "updateTime"]
  /\ UNCHANGED <<remoteZip, cacheRow, folderRows, nFaults, nCalls>>
  /\ StagingUnchanged

\* clearCache: `await this.connector.rm(this.cachePath)`
RmReturn(k) ==
  /\ upl[k].pc = "rm"
  /\ remoteZip' = NoZip
  /\ upl' = [upl EXCEPT ![k].pc = "updateTime"]
  /\ UNCHANGED <<cacheRow, folderRows, nFaults, nCalls>>
  /\ StagingUnchanged

\* uploadToCache: findGit and getUpdateTime have answered
UpdateTimeReturn(k) ==
  /\ upl[k].pc = "updateTime"
  /\ upl' = [upl EXCEPT ![k].pc = "commitTime",
                        ![k].cacheUpdateTime = IF cacheRow.present
                                                 THEN cacheRow.updatedAt ELSE -1]
  /\ UNCHANGED <<remoteZip, cacheRow, folderRows, nFaults, nCalls>>
  /\ StagingUnchanged

\* uploadToCache: getLastCommitTime has answered; `if (cacheUpdateTime <
\* localUpdateTime)` uploads, otherwise `await this.register()` follows at
\* once; the local cacheUpdateTime is not read again
CommitTimeReturn(k) ==
  /\ upl[k].pc = "commitTime"
  /\ upl' = [upl EXCEPT ![k] = IF upl[k].cacheUpdateTime < lastCommit * MsPerSecond
                                 THEN [@ EXCEPT !.pc = "upload", !.cacheUpdateTime = -1]
                                 ELSE Register([@ EXCEPT !.cacheUpdateTime = -1])]
  /\ UNCHANGED <<remoteZip, cacheRow, folderRows, nFaults, nCalls>>
  /\ StagingUnchanged

\* uploadToPath(cachePath): the zip of the checkout is uploaded, then
\* registerCache up to its findOneBy
UploadReturn(k, ok) ==
  /\ upl[k].pc = "upload"
  /\ ok \/ nFaults < MaxFaults
  /\ nFaults' = IF ok THEN nFaults ELSE nFaults + 1
  /\ remoteZip' = IF ok THEN lastCommit ELSE remoteZip
  /\ upl' = [upl EXCEPT ![k] = IF ok THEN [@ EXCEPT !.pc = "cacheFind", !.isComplete = TRUE]
                                 ELSE UploadThrows(@, "upload")]
  /\ UNCHANGED <<cacheRow, folderRows, nCalls>>
  /\ StagingUnchanged

\* registerCache: findOneBy has answered; a row that exists gets
\* exists.update(), which saves nothing, and register() follows
CacheFindReturn(k) ==
  /\ upl[k].pc = "cacheFind"
  /\ upl' = [upl EXCEPT ![k] = IF cacheRow.present THEN Register(@)
                                 ELSE [@ EXCEPT !.pc = "cacheSave"]]
  /\ UNCHANGED <<remoteZip, cacheRow, folderRows, nFaults, nCalls>>
  /\ StagingUnchanged

\* registerCache: `await dataSource.getRepository(Cache).save(cache)`, awaited
\* outside any try
CacheSaveReturn(k, ok) ==
  /\ upl[k].pc = "cacheSave"
  /\ ok \/ nFaults < MaxFaults
  /\ nFaults' = IF ok THEN nFaults ELSE nFaults + 1
  /\ cacheRow' = IF ok THEN [present |-> TRUE, createdAt |-> now, updatedAt |-> now]
                 ELSE cacheRow
  /\ upl' = [upl EXCEPT ![k] = IF ok THEN Register(@) ELSE UploadThrows(@, "cacheSave")]
  /\ UNCHANGED <<remoteZip, folderRows, nCalls>>
  /\ StagingUnchanged

\* EmptyFolderUploader.upload: `await this.connector.mkdir(this.hpcPath)`
MkdirReturn(k, ok) ==
  /\ upl[k].pc = "mkdir"
  /\ ok \/ nFaults < MaxFaults
  /\ nFaults' = IF ok THEN nFaults ELSE nFaults + 1
  /\ upl' = [upl EXCEPT ![k] = IF ok THEN [@ EXCEPT !.pc = "folderSave", !.isComplete = TRUE]
                                 ELSE UploadThrows(@, "mkdir")]
  /\ UNCHANGED <<remoteZip, cacheRow, folderRows, nCalls>>
  /\ StagingUnchanged

\* register: `await dataSource.getRepository(Folder).save(folder)`
FolderSaveReturn(k, ok) ==
  /\ upl[k].pc = "folderSave"
  /\ ok \/ nFaults < MaxFaults
  /\ nFaults' = IF ok THEN nFaults ELSE nFaults + 1
  /\ folderRows' = IF ok THEN folderRows \cup {[id |-> upl[k].id, hpcPath |-> upl[k].hpcPath]}
                   ELSE folderRows
  /\ upl' = [upl EXCEPT ![k] = IF ~ok THEN UploadThrows(@, "folderSave")
                                 ELSE IF @.kind = "empty" THEN UploadResolves(@)
                                 ELSE AfterRefresh(@)]
  /\ UNCHANGED <<remoteZip, cacheRow, nCalls>>
  /\ StagingUnchanged

\* pullFromCache: `await this.connector.unzip(this.cachePath, this.hpcPath)`
\* fails when there is no zip at cachePath
UnzipReturn(k) ==
  /\ upl[k].pc = "unzip"
  /\ upl' = [upl EXCEPT ![k] = IF remoteZip # NoZip
                                 THEN [UploadResolves(@) EXCEPT !.unzipped = TRUE,
                                                                !.served = remoteZip]
                                 ELSE UploadThrows(@, "unzip")]
  /\ UNCHANGED <<remoteZip, cacheRow, folderRows, nFaults, nCalls>>
  /\ StagingUnchanged

InitStaging ==
  /\ InitCache

NextStaging ==
  \/ \E k \in Callers, kind \in {"cachedUpload", "refreshCache", "empty"} : StartUpload(k, kind)
  \/ \E k \in Callers : ExistsReturn(k)
  \/ \E k \in Callers : ClearExistsReturn(k)
  \/ \E k \in Callers : RmReturn(k)
  \/ \E k \in Callers : UpdateTimeReturn(k)
  \/ \E k \in Callers : CommitTimeReturn(k)
  \/ \E k \in Callers, ok \in BOOLEAN : UploadReturn(k, ok)
  \/ \E k \in Callers : CacheFindReturn(k)
  \/ \E k \in Callers, ok \in BOOLEAN : CacheSaveReturn(k, ok)
  \/ \E k \in Callers, ok \in BOOLEAN : MkdirReturn(k, ok)
  \/ \E k \in Callers, ok \in BOOLEAN : FolderSaveReturn(k, ok)
  \/ \E k \in Callers : UnzipReturn(k)
  \/ ClockAdvance
  \/ GitCommit
  \/ WipeScratch

SpecStaging == InitStaging /\ [][NextStaging]_vars

(***************************************************************************)
(* JobUtil.timeToSeconds and the comparison of two time values, on time    *)
(* strings of the four Slurm formats                                       *)
(***************************************************************************)
\* the largest number a field of a time string holds
MaxTimeField == 2

\* MM, MM:SS, HH:MM:SS and D-HH:MM:SS
TimeStrings ==
  {TimeV(-1, <<m>>) : m \in 0..MaxTimeField}
    \cup {TimeV(-1, <<m, x>>) : m \in 0..MaxTimeField, x \in 0..MaxTimeField}
    \cup {TimeV(-1, <<h, m, x>>) : h \in 0..MaxTimeField, m \in 0..MaxTimeField,
                                    x \in 0..MaxTimeField}
    \cup {TimeV(1, <<h, m, x>>) : h \in 0..MaxTimeField, m \in 0..MaxTimeField,
                                   x \in 0..MaxTimeField}

\* JobUtil.timeToSeconds(a)
ConvertTime ==
  /\ timeCall.pc = "given"
  /\ timeCall' = [timeCall EXCEPT !.pc = "converted", !.seconds = timeToSeconds(timeCall.a)]
  /\ UNCHANGED <<supVars, stagingVars, slurmVars, maintVars, emitCall, upl, folderRows,
                 nCalls, nFaults>>

\* JobUtil.compareSlurmConfig("time", a, b)
CompareTimes ==
  /\ timeCall.pc \in {"given", "converted"}
  /\ timeCall' = [timeCall EXCEPT !.pc = "compared",
                                  !.less = compareSlurmConfig("time", timeCall.a, timeCall.b)]
  /\ UNCHANGED <<supVars, stagingVars, slurmVars, maintVars, emitCall, upl, folderRows,
                 nCalls, nFaults>>

InitTime ==
  /\ budget = Closed
  /\ jobPoolCapacities = job_pool_capacity(budget)
  /\ destroyed = FALSE
  /\ pushLog = [c \in HpcNames |-> <<>>]
  /\ is_testing = FALSE
  /\ is_community_account = [c \in HpcNames |-> TRUE]
  /\ db = [j \in JobIds |-> NoRow]
  /\ secretStore = {}
  /\ events = [j \in JobIds |-> <<>>]
  /\ queues = [c \in HpcNames |-> <<>>]
  /\ sub = [j \in JobIds |-> [event |-> 0, update |-> 0]]
  /\ nSubmits = 0
  /\ jobPoolCounters = [c \in HpcNames |-> 0]
  /\ runningJobs = [c \in HpcNames |-> <<>>]
  /\ cancelJobs = [c \in HpcNames |-> <<>>]
  /\ connectionPool = InitialPool(is_community_account)
  /\ inst = <<>>
  /\ thr = [t \in 1..budget.ticks |-> IdleThread]
  /\ nConnFail = 0
  /\ nInitErr = 0
  /\ nCtorErr = 0
  /\ nCancels = 0
  /\ lastCancel = [id |-> NoJob, ret |-> 0, queued |-> FALSE]
  /\ NothingStaged
  /\ NothingCalled
  /\ NothingValidated
  /\ NothingMaintained
  /\ \E a \in TimeStrings, b \in TimeStrings :
        timeCall = [NoTimes EXCEPT !.pc = "given", !.a = a, !.b = b]

NextTime ==
  \/ ConvertTime
  \/ CompareTimes

SpecTime == InitTime /\ [][NextTime]_vars

(***************************************************************************)
(* One Emitter, called for one job: registerEvents and registerLogs,       *)
(* followed await by await, with database writes that may fail             *)
(***************************************************************************)
\* Emitter calls made in one run
MaxEmits == 2

\* registerEvents(job, type, message) up to its first await: the jobs-table
\* UPDATE for the three lifecycle types, the events-table save for the others
RegisterCall(type) ==
  /\ emitCall.pc = "idle"
  /\ emitCall.n < MaxEmits
  /\ emitCall' = [emitCall EXCEPT !.pc = IF type \in {"JOB_INIT"} \cup TerminalEvents
                                         THEN "update" ELSE "save",
                                  !.type = type, !.outcome = "pending", !.n = @ + 1]
  /\ UNCHANGED <<supVars, stagingVars, slurmVars, maintVars, upl, folderRows, nCalls, nFaults, timeCall>>

\* the UPDATE of the jobs table settles: it is awaited outside any try, so a
\* rejection is the rejection of registerEvents
UpdateReturn(ok) ==
  /\ emitCall.pc = "update"
  /\ IF ok
       THEN /\ db' = [db EXCEPT ![GeneratedIds[1]] = EmitRow(@, emitCall.type)]
            /\ emitCall' = [emitCall EXCEPT !.pc = "save"]
       ELSE /\ db' = db
            /\ emitCall' = [emitCall EXCEPT !.pc = "idle", !.outcome = "rejected"]
  /\ UNCHANGED <<budget, jobPoolCapacities, destroyed, pushLog, is_testing,
                 is_community_account, secretStore, events, queues, sub, nSubmits,
                 jobPoolCounters, runningJobs, cancelJobs, connectionPool, inst,
                 thr, nConnFail, nInitErr, nCtorErr, nCancels, lastCancel,
                 stagingVars, slurmVars, maintVars, upl, folderRows, nCalls, nFaults, timeCall>>

\* eventRepo.save(event) settles inside try {} catch {}
SaveReturn(ok) ==
  /\ emitCall.pc = "save"
  /\ events' = IF ok THEN [events EXCEPT ![GeneratedIds[1]] = Append(@, emitCall.type)]
               ELSE events
  /\ emitCall' = [emitCall EXCEPT !.pc = "idle", !.outcome = "resolved"]
  /\ UNCHANGED <<budget, jobPoolCapacities, destroyed, pushLog, is_testing,
                 is_community_account, db, secretStore, queues, sub, nSubmits,
                 jobPoolCounters, runningJobs, cancelJobs, connectionPool, inst,
                 thr, nConnFail, nInitErr, nCtorErr, nCancels, lastCancel,
                 stagingVars, slurmVars, maintVars, upl, folderRows, nCalls, nFaults, timeCall>>

\* registerLogs(job, message) up to its await
LogCall ==
  /\ emitCall.pc = "idle"
  /\ emitCall.n < MaxEmits
  /\ emitCall' = [emitCall EXCEPT !.pc = "log", !.type = "log",
                                  !.outcome = "pending", !.n = @ + 1]
  /\ UNCHANGED <<supVars, stagingVars, slurmVars, maintVars, upl, folderRows, nCalls, nFaults, timeCall>>

\* logRepo.save(log) settles inside try {} catch {}
LogReturn(ok) ==
  /\ emitCall.pc = "log"
  /\ emitCall' = [emitCall EXCEPT !.pc = "idle", !.outcome = "resolved",
                                  !.logs = IF ok THEN @ + 1 ELSE @]
  /\ UNCHANGED <<supVars, stagingVars, slurmVars, maintVars, upl, folderRows, nCalls, nFaults, timeCall>>

\* a job that was created, and possibly initialised, before the calls
InitEmitter ==
  /\ budget = Closed
  /\ jobPoolCapacities = job_pool_capacity(budget)
  /\ destroyed = FALSE
  /\ pushLog = [c \in HpcNames |-> <<>>]
  /\ is_testing = FALSE
  /\ is_community_account = [c \in HpcNames |-> TRUE]
  /\ \E c \in HpcNames, i \in BOOLEAN :
        db = [j \in JobIds |-> IF j = GeneratedIds[1]
                                 THEN [NoRow EXCEPT !.exists = TRUE, !.hpc = c,
                                                    !.initializedAt = i]
                                 ELSE NoRow]
  /\ secretStore = {}
  /\ events = [j \in JobIds |-> <<>>]
  /\ queues = [c \in HpcNames |-> <<>>]
  /\ sub = [j \in JobIds |-> [event |-> 0, update |-> 0]]
  /\ nSubmits = 0
  /\ jobPoolCounters = [c \in HpcNames |-> 0]
  /\ runningJobs = [c \in HpcNames |-> <<>>]
  /\ cancelJobs = [c \in HpcNames |-> <<>>]
  /\ connectionPool = InitialPool(is_community_account)
  /\ inst = <<>>
  /\ thr = [t \in 1..budget.ticks |-> IdleThread]
  /\ nConnFail = 0
  /\ nInitErr = 0
  /\ nCtorErr = 0
  /\ nCancels = 0
  /\ lastCancel = [id |-> NoJob, ret |-> 0, queued |-> FALSE]
  /\ NothingStaged
  /\ NothingCalled
  /\ NoTimeGiven
  /\ NothingValidated
  /\ NothingMaintained

NextEmitter ==
  \/ \E type \in EventTypes : RegisterCall(type)
  \/ \E ok \in BOOLEAN : UpdateReturn(ok)
  \/ \E ok \in BOOLEAN : SaveReturn(ok)
  \/ LogCall
  \/ \E ok \in BOOLEAN : LogReturn(ok)

SpecEmitter == InitEmitter /\ [][NextEmitter]_vars

(***************************************************************************)
(* Properties                                                              *)
(***************************************************************************)
Refs == 1..Len(inst)
\* the Job objects of id j that sit in a running set
Live(j) == {r \in Refs : inst[r].id = j /\ r \in Range(runningJobs[inst[r].hpc])}
InQueue(j) == \E c \in HpcNames : j \in Range(queues[c])
InRunning(j) == \E c \in HpcNames : \E r \in Range(runningJobs[c]) : inst[r].id = j
InCancel(j) == \E c \in HpcNames : \E r \in Range(cancelJobs[c]) : inst[r].id = j
Terminals(j) == Count(events[j], "JOB_ENDED") + Count(events[j], "JOB_FAILED")

\* C1: for every cluster c, running_count(c) (jobPoolCounters[c]) never
\* exceeds capacity(c) (jobPoolCapacities[c]), whatever the interleaving of
\* pushes, ticks and worker terminations.
C1_CounterWithinCapacity ==
  \A c \in HpcNames : jobPoolCounters[c] <= jobPoolCapacities[c]

RECURSIVE QueueEntries(_, _)
QueueEntries(cs, j) ==
  IF cs = {} THEN 0
  ELSE LET c == CHOOSE x \in cs : TRUE IN
       Count(queues[c], j) + QueueEntries(cs \ {c}, j)

\* the entries of job j: pushed so far, popped and not yet admitted or
\* dropped, admitted, dropped with JOB_INIT_ERROR
Pushed(j) == Count(events[j], "JOB_QUEUED") + sub[j].event
InFlight(j) == Cardinality({t \in DOMAIN thr : thr[t].pc = "hydrate" /\ thr[t].jid = j})
Admitted(j) == Cardinality({r \in Refs : inst[r].id = j})
Dropped(j) == Count(events[j], "JOB_INIT_ERROR")

WorkersStarted(j) ==
  {r \in Refs : inst[r].id = j /\
                ~\E t \in DOMAIN thr : thr[t].ref = r /\ thr[t].pc = "register"}

\* C3: for every job id at most one createMaintainerWorker loop is ever
\* started, and no two init()/maintain() calls for the job are in progress at
\* the same time.
C3_OneWorkerPerJob ==
  \A j \in JobIds :
    /\ Cardinality(WorkersStarted(j)) <= 1
    /\ Cardinality({t \in DOMAIN thr : thr[t].pc = "w_run" /\ thr[t].jid = j}) <= 1

\* the running jobs of cluster c that use the shared account
SharedRunning(c) ==
  {i \in 1..Len(runningJobs[c]) : is_community_account[inst[runningJobs[c][i]].hpc]}

\* C4: for every community cluster c, connectionPool[c].counter equals the
\* number of running jobs on c that use the shared account, and the shared
\* shell is disposed only by a step that leaves the counter at zero.
C4_SharedRefcount ==
  /\ [](\A c \in HpcNames : is_community_account[c] =>
          connectionPool[c].counter = Cardinality(SharedRunning(c)))
  /\ [][\A c \in HpcNames :
          (is_community_account[c] /\ connectionPool[c].connected
             /\ ~connectionPool'[c].connected)
          => connectionPool'[c].counter = 0]_vars

\* two jobs shared the shell, both ended, and the shell was disposed
C4_Witness ==
  \E c \in HpcNames :
    /\ is_community_account[c]
    /\ connectionPool[c].counter = 0
    /\ ~connectionPool[c].connected
    /\ Cardinality({r \in Refs : inst[r].hpc = c /\ inst[r].done}) = 2

\* C5: for every private-account job in the running set, connectionPool[j.id]
\* is present with counter 1.
C5_PrivateEntry ==
  \A c \in HpcNames : \A r \in Range(runningJobs[c]) :
    ~is_community_account[inst[r].hpc] =>
      /\ connectionPool[inst[r].id].present
      /\ connectionPool[inst[r].id].counter = 1

\* C6: for every job whose worker saw isEnd and returned, exactly one of
\* JOB_ENDED / JOB_FAILED was emitted over the job's life and finishedAt was
\* set exactly once (stated for the jobs that were admitted once).
C6_OneTerminalEvent ==
  \A r \in Refs :
    (inst[r].done /\ Admitted(inst[r].id) = 1) =>
      /\ Terminals(inst[r].id) = 1
      /\ db[inst[r].id].finishedAt = 1

\* C7: for every job with credentialId set, its credential is in the secret
\* store from the job's JOB_REGISTERED event until its JOB_ENDED/JOB_FAILED
\* event.
C7_CredentialKept ==
  \A j \in JobIds :
    (/\ db[j].credentialId # NoCred
     /\ Count(events[j], "JOB_REGISTERED") > 0
     /\ Terminals(j) = 0)
    => db[j].credentialId \in secretStore

\* a registered private-account job that has not ended
C7_Witness ==
  \E j \in JobIds :
    /\ db[j].credentialId # NoCred
    /\ Count(events[j], "JOB_REGISTERED") > 0
    /\ Terminals(j) = 0
    /\ \E r \in Refs : inst[r].id = j /\ inst[r].hasCredential /\ inst[r].jobOnHpc

\* C8: cancelJob(jobId) called while the job is in a running set appends the
\* job to that cluster's cancel set and returns the job.
C8_CancelRunning ==
  [][(nCancels' # nCancels /\ Live(lastCancel'.id) # {}) =>
       /\ lastCancel'.ret \in Live(lastCancel'.id)
       /\ \E c \in HpcNames :
            cancelJobs'[c] = Append(cancelJobs[c], lastCancel'.ret)]_vars

C10_CancelServed ==
  \A r \in Refs : ~inst[r].missed

\* C11: once destroy() has returned, no step pops a queue or admits a job
\* (no new Job object enters a running set), and a job leaves a running set
\* only when its maintainer has reached isEnd.
C11_DestroyStopsAdmission ==
  [][destroyed =>
       /\ \A c \in HpcNames : Len(queues'[c]) >= Len(queues[c])
       /\ Len(inst') = Len(inst)
       /\ \A c \in HpcNames : \A r \in Range(runningJobs[c]) :
            r \notin Range(runningJobs'[c]) => inst'[r].isEnd]_vars

\* the ids of the Job objects in the running set of cluster c, in order
RunningIds(c) == [i \in 1..Len(runningJobs[c]) |-> inst[runningJobs[c][i]].id]

\* the first tick has done all it does before a job ends: its callback is
\* suspended in the worker of the job it admitted, and no other tick fired
FirstTickSettled ==
  /\ Len(inst) = 1
  /\ thr[1].pc \in {"w_conn", "w_run"}
  /\ ~inst[1].isEnd
  /\ \A t \in DOMAIN thr : t > 1 => thr[t].pc = "idle"

\* C12: with capacity 2 and j1, j2, j3 pushed before the first tick, after
\* the first tick exactly j1 and j2 are in the running set and j3 is still in
\* the queue.
C12_FirstTickFillsPool ==
  FirstTickSettled =>
    /\ RunningIds(HPCs[1]) = <<"j1", "j2">>
    /\ queues[HPCs[1]] = <<"j3">>

\* the position at which job j entered a running set (0: not admitted)
AdmitPos(j) == IF \E r \in Refs : inst[r].id = j
               THEN CHOOSE r \in Refs : inst[r].id = j /\ \A q \in Refs : inst[q].id = j => r <= q
               ELSE 0

\* C13: within each cluster jobs enter the running set in the order in which
\* they were pushed: if x was pushed before y (each pushed once) and y has
\* been admitted, then x was admitted before y, or x was dropped with
\* JOB_INIT_ERROR.
C13_FifoAdmission ==
  \A c \in HpcNames : \A i, k \in 1..Len(pushLog[c]) :
    LET x == pushLog[c][i]
        y == pushLog[c][k] IN
    (/\ i < k
     /\ Count(pushLog[c], x) = 1
     /\ Count(pushLog[c], y) = 1
     /\ AdmitPos(y) > 0)
    => \/ Dropped(x) > 0
       \/ (AdmitPos(x) > 0 /\ AdmitPos(x) < AdmitPos(y))

\* in the events of job j every event of type b has an event of type a
\* recorded before it
Precedes(j, a, b) ==
  \A k \in 1..Len(events[j]) :
    events[j][k] = b => \E i \in 1..(k-1) : events[j][i] = a

\* C14: for every job JOB_QUEUED is recorded before JOB_REGISTERED,
\* JOB_REGISTERED before any SLURM_UPLOAD_EXECUTABLE, SLURM_UPLOAD_DATA,
\* SLURM_CREATE_RESULT or JOB_INIT event, and JOB_INIT before JOB_ENDED.
C14_EventsInCausalOrder ==
  \A j \in JobIds :
    /\ Precedes(j, "JOB_QUEUED", "JOB_REGISTERED")
    /\ \A e \in {"SLURM_UPLOAD_EXECUTABLE", "SLURM_UPLOAD_DATA",
                  "SLURM_CREATE_RESULT", "JOB_INIT"} :
         Precedes(j, "JOB_REGISTERED", e)
    /\ Precedes(j, "JOB_INIT", "JOB_ENDED")

\* the record of the call a step completes
ThisStage == stages'[Len(stages')]
LastStage == stages[Len(stages)]

\* C15: a cachedUploadGit call that follows a successful one, with no commit
\* and no purge in between, uploads nothing and unzips exactly once, from
\* the cache zip into a workspace no earlier call used.
C15_CacheRoundTrip ==
  [][(/\ Len(stages') = Len(stages) + 1
      /\ Len(stages) >= 1
      /\ LastStage.ok
      /\ LastStage.commit = lastCommit
      /\ remoteZip # NoZip)
     => /\ ThisStage.uploads = 0
        /\ ThisStage.unzips = 1
        /\ ThisStage.ok
        /\ ThisStage.served = remoteZip
        /\ \A i \in 1..Len(stages) : stages[i].id # ThisStage.id]_vars

\* the first call uploaded and the second, on the same commit, reused the zip
C15_Witness ==
  /\ Len(stages) >= 2
  /\ stages[1].ok /\ stages[1].uploads = 1
  /\ stages[2].ok /\ stages[2].uploads = 0 /\ stages[2].unzips = 1
  /\ stages[2].commit = stages[1].commit
  /\ stages[2].served = stages[1].served

\* C16: a cachedUploadGit call that finds the caches row older than the last
\* commit rebuilds the cache once (one upload; the zip holds the last commit
\* and the row is no longer older than it), and a call that finds the row up
\* to date and the zip in place uploads nothing.
C16_StaleCacheRebuilt ==
  [][Len(stages') = Len(stages) + 1 =>
       /\ (cacheRow.present /\ cacheRow.updatedAt < lastCommit * MsPerSecond)
            => /\ ThisStage.uploads = 1
               /\ remoteZip' = lastCommit
               /\ ThisStage.served = lastCommit
               /\ cacheRow'.updatedAt >= lastCommit * MsPerSecond
       /\ (/\ cacheRow.present
           /\ cacheRow.updatedAt >= lastCommit * MsPerSecond
           /\ remoteZip # NoZip)
            => ThisStage.uploads = 0]_vars

\* the job whose submit validateJob answered with a throw
Rejected == verdict.status \in {"Error", "TypeError"}

\* the seconds a Slurm time string stands for: D-HH, D-HH:MM, D-HH:MM:SS,
\* MM, MM:SS, HH:MM:SS
TrueSeconds(v) ==
  CASE Len(v.f) = 1 -> IF v.day >= 0 THEN v.day * 86400 + v.f[1] * 3600
                       ELSE v.f[1] * 60
    [] Len(v.f) = 2 -> IF v.day >= 0 THEN v.day * 86400 + v.f[1] * 3600 + v.f[2] * 60
                       ELSE v.f[1] * 60 + v.f[2]
    [] OTHER -> IF v.day >= 0
                THEN v.day * 86400 + v.f[1] * 3600 + v.f[2] * 60 + v.f[3]
                ELSE v.f[1] * 3600 + v.f[2] * 60 + v.f[3]

\* a set value of field f in the field's base unit (count, KB, seconds)
Magnitude(f, v) ==
  IF f \in slurm_integer_storage_unit_config THEN storageUnitToKB(v)
  ELSE IF f \in slurm_integer_time_unit_config THEN TrueSeconds(v)
  ELSE v.n

\* the request exceeds the ceiling validateSlurmConfig built, in field f
Exceeds(f) ==
  /\ slurmReq[f].set
  /\ verdict.ceiling[f].set
  /\ Magnitude(f, slurmReq[f]) > Magnitude(f, verdict.ceiling[f])

\* C17: a job that fails validation (validateJob throws, or the Slurm request
\* is over the ceiling in some field) is in no queue, was never pushed, has no
\* event and no queuedAt, and no push of it is under way
C17_RejectedAtBoundary ==
  (Rejected \/ \E f \in SlurmFields : Exceeds(f)) =>
    \A j \in Known :
      /\ Rejected
      /\ ~InQueue(j)
      /\ \A c \in HpcNames : j \notin Range(pushLog[c])
      /\ events[j] = <<>>
      /\ ~db[j].queuedAt
      /\ sub[j] = [event |-> 0, update |-> 0]

\* C18: validateSlurmConfig throws exactly for the jobs whose request exceeds
\* the ceiling in some field, the integer fields included
C18_RejectsOverCeiling ==
  verdict.status # "none" =>
    (Rejected <=> \E f \in SlurmFields : Exceeds(f))

\* the maximum a rule gives field f, in the field's base unit
RuleMagnitude(f, rule) ==
  IF f \in slurm_integer_storage_unit_config
  THEN storageUnitToKB(MemV(rule.max, rule.unit))
  ELSE IF f \in slurm_integer_time_unit_config
       THEN unitTimeToSeconds(rule.max, rule.unit)
  ELSE rule.max

\* the limits that bear on field f: rule max, global cap, default ceiling
Limits(f) ==
  {RuleMagnitude(f, hpcRules[f]) : x \in {1 : y \in {hpcRules[f]} \ {NoValue}}}
    \cup {Magnitude(f, hpcCap[f]) : x \in {1 : y \in {hpcCap[f]} \ {NoValue}}}
    \cup {Magnitude(f, defaultSlurmCeiling[f])}

Least(S) == CHOOSE m \in S : \A k \in S : m <= k

\* C19: the ceiling validateSlurmConfig builds is, field by field, the least
\* of the rule's max, the global cap and the default ceiling
C19_CeilingIsMinimum ==
  verdict.status # "none" =>
    \A f \in SlurmFields :
      /\ verdict.ceiling[f].set
      /\ Magnitude(f, verdict.ceiling[f]) = Least(Limits(f))

\* a callback whose isEmpty() is answered for an empty queue takes this step
SeesEmptyQueue(t) ==
  /\ thr[t].pc = "isEmpty"
  /\ queues[HPCs[thr[t].h]] = <<>>
  /\ thr'[t] # thr[t]

\* C20: a tick dequeues and admits nothing for a cluster whose queue is empty
\* or whose capacity is 0; on a cluster of capacity 0 every pushed job is
\* still in the queue, in push order, and no callback ever gets into the loop
C20_NothingToAdmit ==
  /\ [](\A c \in HpcNames :
          jobPoolCapacities[c] = 0 =>
            /\ queues[c] = pushLog[c]
            /\ runningJobs[c] = <<>>
            /\ jobPoolCounters[c] = 0
            /\ \A t \in DOMAIN thr : thr[t].pc = "idle")
  /\ [][\A t \in DOMAIN thr :
          SeesEmptyQueue(t) =>
            /\ UNCHANGED <<queues, runningJobs, jobPoolCounters, inst, events, db>>
            /\ thr'[t].pc \in {"idle", "isEmpty"}]_vars

\* two jobs were submitted to a cluster of capacity 0, their submits have
\* completed, the interval timer is live, and both are still queued
C20_Witness ==
  /\ \A c \in HpcNames : jobPoolCapacities[c] = 0
  /\ ~destroyed
  /\ queues[HPCs[1]] = <<"j1", "j2">>
  /\ db["j1"].queuedAt /\ db["j2"].queuedAt

\* pushJobToQueue(job) has returned for job j at least once
PushReturned(j) == Count(events[j], "JOB_QUEUED") > 0

\* C21: a job whose id sits in a pending queue after pushJobToQueue has
\* returned for it has its queuedAt set
C21_QueuedAtSetWhenQueued ==
  \A j \in JobIds : (InQueue(j) /\ PushReturned(j)) => db[j].queuedAt

\* the worker of Job object r returns in this step
WorkerReturns(r) == r <= Len(inst) /\ ~inst[r].done /\ inst'[r].done

\* C22: the worker that observes isEnd removes its job from the running set
\* and from the cancel set and takes one off the cluster's counter; a job
\* whose worker has returned is in neither set, whatever number of cancelJob
\* calls were made while it ran
C22_EndedJobLeftBothSets ==
  /\ [](\A r \in Refs :
          inst[r].done => /\ r \notin Range(runningJobs[inst[r].hpc])
                          /\ r \notin Range(cancelJobs[inst[r].hpc]))
  /\ [][\A r \in Refs :
          WorkerReturns(r) =>
            jobPoolCounters'[inst[r].hpc] = jobPoolCounters[inst[r].hpc] - 1]_vars

\* the constructor of the maintainer of the job callback t popped throws in
\* this step
CtorThrows(t) ==
  /\ thr[t].pc = "hydrate"
  /\ Count(events'[thr[t].jid], "JOB_INIT_ERROR") > Count(events[thr[t].jid], "JOB_INIT_ERROR")

\* C23: when the maintainer's constructor throws, JOB_INIT_ERROR is recorded,
\* finishedAt is set in the jobs table, the callback is back in the admission
\* loop, and running set, counter, pool and Job objects are as before
C23_CtorErrorSkipsJob ==
  [][\A t \in DOMAIN thr :
       CtorThrows(t) =>
         /\ events'[thr[t].jid] = Append(events[thr[t].jid], "JOB_INIT_ERROR")
         /\ db'[thr[t].jid].finishedAt > db[thr[t].jid].finishedAt
         /\ thr'[t].pc \in {"idle", "isEmpty"}
         /\ UNCHANGED <<runningJobs, jobPoolCounters, connectionPool, inst, queues>>]_vars

\* a job was dropped with JOB_INIT_ERROR: it has finishedAt, no Job object of
\* it exists, and the counter is 0
C23_Witness ==
  \E j \in JobIds :
    /\ Count(events[j], "JOB_INIT_ERROR") > 0
    /\ db[j].finishedAt > 0
    /\ \A r \in Refs : inst[r].id # j
    /\ \A c \in HpcNames : jobPoolCounters[c] = 0 /\ runningJobs[c] = <<>>

\* runCommandWithBackoff(connect) gives up for the job of callback t in this step
BackoffExhausted(t) ==
  /\ thr[t].pc = "w_conn"
  /\ thr'[t] # thr[t]
  /\ ~connectionPool'[PoolKey(inst[thr[t].ref])].connected

\* C24: when the backoff of the shell connection is exhausted JOB_FAILED is
\* recorded, the job is at its end (isEnd) and the worker does not go on to
\* call init() or maintain()
C24_ConnectFailureEndsJob ==
  [][\A t \in DOMAIN thr :
       BackoffExhausted(t) =>
         /\ Count(events'[thr[t].jid], "JOB_FAILED") = Count(events[thr[t].jid], "JOB_FAILED") + 1
         /\ inst'[thr[t].ref].isEnd
         /\ thr'[t].pc # "w_run"]_vars

\* onInit of the job of callback t ran in this step and threw before JOB_INIT
\* (a staging failure or a manifest error)
InitFails(t) ==
  /\ thr[t].pc = "w_run"
  /\ inst'[thr[t].ref].initCounter > inst[thr[t].ref].initCounter
  /\ ~inst'[thr[t].ref].isInit

\* C25: a failure inside init() is fatal for the job: JOB_FAILED is recorded,
\* the job is at its end with finishedAt and isFailed in the jobs table, and
\* the worker does not go on to another init()
C25_InitFailureIsFatal ==
  [][\A t \in DOMAIN thr :
       InitFails(t) =>
         /\ Count(events'[thr[t].jid], "JOB_FAILED") > Count(events[thr[t].jid], "JOB_FAILED")
         /\ inst'[thr[t].ref].isEnd
         /\ db'[thr[t].jid].isFailed
         /\ db'[thr[t].jid].finishedAt > db[thr[t].jid].finishedAt
         /\ thr'[t].pc \notin {"w_run", "w_conn"}]_vars

\* the cancel check of callback t runs in this step and finds its job in the
\* cancel set while jobOnHpc is false
CancelSeenOffHpc(t) ==
  /\ thr[t].pc = "w_run"
  /\ thr'[t] # thr[t] \/ inst' # inst
  /\ thr[t].ref \in Range(cancelJobs[inst[thr[t].ref].hpc])
  /\ ~inst'[thr[t].ref].jobOnHpc

\* C26: a worker that finds its job in the cancel set while jobOnHpc is false
\* does not call onCancel and makes no further init() or maintain() call
C26_CancelOffHpcAborts ==
  [][\A t \in DOMAIN thr :
       CancelSeenOffHpc(t) =>
         /\ inst'[thr[t].ref].onCancelCalls = inst[thr[t].ref].onCancelCalls
         /\ thr'[t].pc \notin {"w_cancel", "w_run", "w_conn"}]_vars

\* the events registered for job j in this step
NewEvents(j) == SubSeq(events'[j], Len(events[j]) + 1, Len(events'[j]))

\* C30: registering an event changes the job's fields for the distinguished
\* types only: JOB_INIT sets initializedAt; JOB_ENDED and JOB_FAILED set
\* finishedAt and make isFailed true exactly for JOB_FAILED; any other type
\* leaves initializedAt, finishedAt and isFailed as they are
C30_EventFieldEffects ==
  /\ [](\A j \in JobIds : \A type \in EventTypes :
          LET row == EmitRow(db[j], type) IN
          /\ type = "JOB_INIT" =>
                row = [db[j] EXCEPT !.initializedAt = TRUE]
          /\ type \in {"JOB_ENDED", "JOB_FAILED"} =>
                /\ row.finishedAt > db[j].finishedAt
                /\ row.isFailed = (type = "JOB_FAILED")
                /\ row.initializedAt = db[j].initializedAt
          /\ type \notin {"JOB_INIT", "JOB_ENDED", "JOB_FAILED"} => row = db[j])
  /\ [][\A j \in JobIds :
          (/\ Len(events'[j]) > Len(events[j])
           /\ Range(NewEvents(j)) \cap {"JOB_INIT", "JOB_ENDED", "JOB_FAILED", "JOB_INIT_ERROR"} = {})
            => /\ db'[j].initializedAt = db[j].initializedAt
               /\ db'[j].finishedAt = db[j].finishedAt
               /\ db'[j].isFailed = db[j].isFailed]_vars

\* a job that was initialized and then ended without failing
C30_Witness ==
  \E j \in JobIds :
    /\ Count(events[j], "JOB_INIT") > 0
    /\ Count(events[j], "JOB_ENDED") > 0
    /\ db[j].initializedAt
    /\ db[j].finishedAt > 0
    /\ ~db[j].isFailed

\* the operations of one init(), in the order the claim gives: stage the
\* executable, stage the data if present, create the result folder, persist
\* the folder references, build the submission, submit
StagingOrder(m) ==
  <<"findGit", "getExecutableManifest", "cachedUploadGit", "findExecutableFolder">>
    \o (IF m.localDataFolder THEN <<"uploadData", "findDataFolder">> ELSE <<>>)
    \o <<"uploadResult", "findResultFolder", "updateFolders",
          "execExecutableManifestWithinImage", "submit", "jobLog">>

IsPrefix(a, b) == Len(a) <= Len(b) /\ a = SubSeq(b, 1, Len(a))

\* C27: the operations of init() complete in the stated order; jobOnHpc is
\* true only once submit() has returned, JOB_INIT is emitted only with
\* jobOnHpc true, and as long as submit() has not returned (a failure at any
\* earlier step included) there is neither JOB_INIT nor jobOnHpc
C27_InitStepsInOrder ==
  /\ mnt.polls = 0 => IsPrefix(mnt.run, StagingOrder(mnt))
  /\ mnt.jobOnHpc => "submit" \in Range(mnt.calls)
  /\ Count(mnt.buf, "JOB_INIT") > 0 => mnt.jobOnHpc
  /\ "submit" \notin Range(mnt.calls) =>
        ~mnt.jobOnHpc /\ Count(mnt.buf, "JOB_INIT") = 0 /\ ~mnt.isInit

\* an init() of a job with a data folder ran through all its steps
C27_Witness ==
  /\ mnt.localDataFolder
  /\ mnt.pc = "returned"
  /\ mnt.polls = 0
  /\ mnt.run = StagingOrder(mnt)
  /\ mnt.jobOnHpc
  /\ mnt.buf = <<"SLURM_UPLOAD_EXECUTABLE", "SLURM_UPLOAD_DATA", "SLURM_CREATE_RESULT",
                 "JOB_INIT">>

\* a maintain() call that polled a status has returned
Polled == mnt.pc = "returned" /\ mnt.status # "none"
Ended(type) == Count(mnt.buf, type) > 0 /\ mnt.isEnd
NoTerminal == Count(mnt.buf, "JOB_FAILED") = 0 /\ Count(mnt.buf, "JOB_ENDED") = 0 /\ ~mnt.isEnd

LogFetchThrew ==
  /\ "getSlurmStderr" \notin Range(mnt.run)
  /\ mnt.buf # <<>> /\ mnt.buf[Len(mnt.buf)] = "JOB_RETRY"

C29_ListingBeforeEnded ==
  Count(mnt.buf, "JOB_ENDED") > 0 => resultContent.stored

\* C31: every event and log write is best-effort: whatever write fails
\* inside an Emitter call, for every event type, the call resolves and
\* nothing propagates to its caller
C31_EmitterNeverRejects == emitCall.outcome # "rejected"

\* C32: cache registration is best-effort: when the upload into the cache
\* path succeeded and the save of the caches row fails, the call goes on
\* (to the unzip into the workspace) instead of rejecting
C32_CacheRegistrationBestEffort ==
  [][\A k \in Callers :
       (upl[k].pc = "cacheSave" /\ upl'[k].pc # "cacheSave" /\ nFaults' > nFaults)
         => upl'[k].outcome # "threw"]_vars

\* C33: every upload that returned its uploader, the cached upload of the
\* executable folder (cache miss or hit) and the empty result folder, has a
\* folders row with the uploader's id and hpcPath <root_path>/<id>
C33_StagedFolderHasRow ==
  \A k \in Callers :
     (upl[k].pc = "done" /\ upl[k].outcome = "ok" /\ upl[k].kind \in {"cachedUpload", "empty"})
       => [id |-> upl[k].id, hpcPath |-> <<root_path, upl[k].id>>] \in folderRows

\* no caller is inside an upload
NoUploadUnderWay == \A k \in Callers : upl[k].pc \in {"idle", "done"}

\* C34: between calls of cachedUpload / refreshCache (no write failed, the
\* scratch space was never purged) there is a caches row for the cache path
\* exactly when the zip exists at the cache path
C34_RowIffZip ==
  (NoUploadUnderWay /\ nWipes = 0 /\ nFaults = 0)
    => (cacheRow.present <=> remoteZip # NoZip)

\* every call made so far is a cachedUpload, each by another caller
OnlyCachedUploads == Cardinality({k \in Callers : upl[k].kind = "cachedUpload"}) = nCalls

\* C37: however cachedUpload calls of two callers interleave (no write
\* failed, the scratch space was never purged), no call's unzip finds the
\* zip missing
C37_ZipThereAtPull ==
  (OnlyCachedUploads /\ nWipes = 0 /\ nFaults = 0)
    => \A k \in Callers : upl[k].lost # "unzip"

\* C35: timeToSeconds answers D*86400 + HH*3600 + MM*60 + SS, HH*3600 +
\* MM*60 + SS, MM*60 + SS and MM*60 for the four formats, and the comparison
\* of two time values is the order of these numbers of seconds
C35_TimeInSeconds ==
  /\ timeCall.pc = "converted" => timeCall.seconds = TrueSeconds(timeCall.a)
  /\ timeCall.pc = "compared"
       => (timeCall.less <=> TrueSeconds(timeCall.a) < TrueSeconds(timeCall.b))

\* the worker loop of Job object r has stopped, by its ending branch or by
\* an error that left createMaintainerWorker
Stopped(r) == inst[r].done \/ inst[r].crashed

\* C36: whenever a worker loop has stopped, also because an awaited call or
\* an event write threw, the slot its job took at admission is released: the
\* job is in no running set and the counter of its cluster counts only jobs
\* whose loop has not stopped
C36_SlotReleasedOnStop ==
  /\ \A r \in Refs : Stopped(r) => r \notin Range(runningJobs[inst[r].hpc])
  /\ \A c \in HpcNames :
       jobPoolCounters[c] <= Cardinality({r \in Refs : inst[r].hpc = c /\ ~Stopped(r)})

\* C38: at every await of the scheduler and of the workers, the counter of
\* each cluster equals the number of jobs in the cluster's running set
C38_CounterIsRunningCount ==
  \A c \in HpcNames : jobPoolCounters[c] = Len(runningJobs[c])

\* a job's worker is suspended in init() or maintain() on a cluster that
\* holds one slot, after another job of the run was torn down
C38_Witness ==
  \E c \in HpcNames :
     /\ jobPoolCounters[c] = 1
     /\ Len(runningJobs[c]) = 1
     /\ \E t \in DOMAIN thr : thr[t].pc = "w_run" /\ thr[t].ref = runningJobs[c][1]
     /\ \E r \in Refs : inst[r].done

\* C39: over every sequence of init() calls of one job, re-runs after a
\* JOB_RETRY included, connector.submit() is invoked at most once, and no
\* onInit is under way (before its own JOB_INIT) once JOB_INIT was emitted
C39_SubmittedAtMostOnce ==
  /\ mnt.submits <= 1
  /\ mnt.pc \in InitOps \ {"jobLog"} => Count(mnt.buf, "JOB_INIT") = 0

\* C40: no worker is suspended in onCancel() for a job whose maintainer has
\* reached isEnd, and no job has had more onCancel() calls than there were
\* cancelJob requests
C40_NoCancelAfterEnd ==
  /\ \A t \in DOMAIN thr : thr[t].pc = "w_cancel" => ~inst[thr[t].ref].isEnd
  /\ \A r \in Refs : inst[r].onCancelCalls <= nCancels

====
